---------------------------- MODULE Spec2Model ----------------------------
(***************************************************************************)
(* Verification model of the earthquake alert pipeline                     *)
(* (src/modules/alerts.py, src/modules/utils.py, src/modules/where.py).    *)
(*                                                                         *)
(* Numbers.  The code computes with floats; the model uses fixed point:    *)
(*   confidence, score, slider : units of 1/CU  (CU = 20000, so that the   *)
(*                               floor 0.00005 of Report.confidence is 1)  *)
(*   magnitude                 : hundredths (5.2 is 520), 0 stands for None*)
(*   time                      : whole seconds since an arbitrary epoch    *)
(*   distance, radius, depth   : whole kilometres on a line (one axis)     *)
(* Divisions round down where the float would keep a fraction.             *)
(***************************************************************************)
EXTENDS Integers, Sequences, FiniteSets, TLC

VARIABLES
  now,        \* wall clock, what When.now().epoch / time.time() return
  input,      \* FeedManager.input : the heap list of its PriorityQueue
  output,     \* FeedManager.output: the notices put there (Monitor's input)
  history,    \* Event.history     : deque(maxlen=128) of events
  mhistory,   \* FeedManager.history: deque(maxlen=64) of notices
  dejavu,     \* FeedManager.dejavu.events: repr -> epoch of first sight
  recent,     \* FeedManager.recent: TTLCache(ttl=100), as insertion times
  trend,      \* FeedManager.trend : TTLCache(ttl=1000), as insertion times
  slider,     \* FeedManager.slider
  feed,       \* the reports the configured sources deliver in this run
  arrivals,   \* number of reports put on the fusion channel so far
  log,        \* what the fusion worker did with each dequeued report
  notices,    \* the Notice objects handed to the Monitor, by identity
  tags,       \* Notice.tag of each of them
  mon,        \* each Monitor thread: where it is in Monitor.process
  dhistory,   \* Domain.history of each domain, as notice identities
  locks,      \* Monitor.locks: the regions whose lock is held
  slowdown,   \* slowdown.factor, in thousandths
  sent,       \* the recipient.send calls made by the Monitor
  streams,    \* the message streams the Monitor started, with their lines
  remembered, \* the Domain.remember calls made on each domain, in order
  receivers,  \* FeedManager.receivers: the set of adapters
  polls,      \* the supervisor ticks FeedManager.poll has handled
  winput,     \* a Worker's input WorkQueue, in the order of the puts
  woutput,    \* its output WorkQueue
  wthreads,   \* its threads: where each is in Worker.start.run
  wdone,      \* what the threads did with each item they dequeued
  pollers,    \* each PollingReceiver: where its worker is in process()
  semaphore,  \* PollingReceiver.semaphore: the permits left
  lfu,        \* FeedParser.cache: the items whose conversion is cached
  yielded,    \* the events the pollers' workers took from process()
  ticks,      \* the ticks the tickers of the pollers have yielded
  meter,      \* each Monitor thread: where it is in the latency metering
  pacing,     \* a PollingReceiver: its period, limit and stopwatch
  probe,      \* a call of a method of Notice or Domain and its result
  learner,    \* the learner Worker: what its ticks on Event.model did
  sink        \* a Recipient: its timers and what it submitted

fvars == <<input, mhistory, dejavu, recent, trend, slider, log>>
mvars == <<notices, tags, mon, dhistory, locks, slowdown, sent, streams,
          remembered>>
svars == <<receivers, polls>>
wvars == <<winput, woutput, wthreads, wdone>>
rvars == <<pollers, semaphore, lfu, yielded, ticks>>
lvars == <<meter>>
pvars == <<pacing, probe, learner, sink>>
xvars == <<svars, wvars, rvars, lvars, pvars>>
vars == <<now, output, history, feed, arrivals, fvars, mvars, xvars>>

----------------------------------------------------------------------------
(* Bounds of the exploration *)

MaxPuts == 3
MaxTicks == 2
TickStep == 60

(* Program constants *)

CU == 20000
maxreports == 128
managerHistoryLen == 64
threshold == 250
precision == 1000
maxage == 43200
recentTTL == 100
trendTTL == 1000
throttling == 120
obsolete == 172800

Started == 50000

----------------------------------------------------------------------------
(* Arithmetic helpers *)

Min(a, b) == IF a < b THEN a ELSE b
Max(a, b) == IF a > b THEN a ELSE b
Abs(a) == IF a < 0 THEN -a ELSE a

\* utils.clip
clip(quantity, minimum, maximum) == Max(minimum, Min(maximum, quantity))

\* p1/q1 < p2/q2 for naturals with q1, q2 > 0, without forming the products
RECURSIVE FracLess(_, _, _, _)
FracLess(p1, q1, p2, q2) ==
  LET i1 == p1 \div q1
      i2 == p2 \div q2
      r1 == p1 % q1
      r2 == p2 % q2
  IN  IF i1 # i2 THEN i1 < i2
      ELSE IF r2 = 0 THEN FALSE
      ELSE IF r1 = 0 THEN TRUE
      ELSE FracLess(q2, r2, q1, r1)

\* round(x, -1) for a non-negative x
Round10(x) == ((x + 5) \div 10) * 10

\* integer square root
RECURSIVE ISqrtFrom(_, _, _)
ISqrtFrom(n, low, high) ==
  IF low = high THEN low
  ELSE LET mid == (low + high + 1) \div 2
       IN  IF mid * mid <= n THEN ISqrtFrom(n, mid, high)
                             ELSE ISqrtFrom(n, low, mid - 1)

ISqrt(n) == ISqrtFrom(n, 0, Min(n, 46340))

RECURSIVE SumSeq(_)
SumSeq(s) == IF s = <<>> THEN 0 ELSE Head(s) + SumSeq(Tail(s))

RECURSIVE MaxSeq(_)
MaxSeq(s) == IF Len(s) = 1 THEN s[1] ELSE Max(Head(s), MaxSeq(Tail(s)))

\* list.remove / deque.remove of the element at index i
RemoveAt(s, i) == SubSeq(s, 1, i - 1) \o SubSeq(s, i + 1, Len(s))

----------------------------------------------------------------------------
(* Report.Status.table: the confidence of each status tier *)

StRejected == 0
StGuessed == 2000
StIncomplete == 8000
StDetection == 12000
StPreliminary == 14000
StConfirmed == 18000
StManual == 19000
StRevised == 20000
StUnknown == 16000

(* Report.Severity.values *)
Green == 1
Yellow == 2
Orange == 3
Red == 4


----------------------------------------------------------------------------
(* The reports the sources can deliver.  Each entry is the content of one  *)
(* parsed Report (Report.__init__ plus what the parser sets afterwards).   *)
(* origin is the receiver that parsed it; times are relative to Started,   *)
(* the moment the manager was constructed.                                 *)

Rep(origin, time, update, mag, score, status, pos, crad, depth, alert, text, kw, intensity, water, src, heur) ==
  [origin |-> origin, time |-> Started + time, update |-> Started + update,
   mag |-> mag, score |-> score, status |-> status, pos |-> pos,
   crad |-> crad, depth |-> depth, alert |-> alert, text |-> text,
   kw |-> kw, intensity |-> intensity, water |-> water, src |-> src,
   heur |-> heur]

Catalogue ==
  [ \* an agency report, its verbatim re-post by a mirror and its revision
    a    |-> Rep(1, -120, 10, 520, CU, StPreliminary, 0, 0, 10, 0,
                 FALSE, "", 0, "", "JMA", FALSE),
    a2   |-> Rep(2, -120, 40, 520, CU, StPreliminary, 0, 0, 10, 0,
                 FALSE, "", 4, "", "JMA", FALSE),
    b    |-> Rep(2, -120, 50, 550, CU, StRevised, 2, 0, 12, 0,
                 FALSE, "", 0, "", "USGS", FALSE),
    \* an earlier earthquake of the same region
    z    |-> Rep(1, -500, 5, 480, CU, StConfirmed, 3, 0, 10, 0,
                 FALSE, "", 0, "", "JMA", FALSE),
    \* two reports of that region one and two minutes after a; the first
    \* carries an intensity
    mid  |-> Rep(3, -60, 30, 520, CU, StRevised, 0, 0, 10, 0,
                 FALSE, "", 4, "", "EMSC", FALSE),
    late |-> Rep(2, 0, 20, 520, CU, StPreliminary, 0, 0, 10, 0,
                 FALSE, "", 0, "", "USGS", FALSE),
    \* reports carrying an alert colour
    y    |-> Rep(1, -60, 10, 600, CU, StRevised, 0, 0, 10, Yellow,
                 FALSE, "", 0, "", "JMA", FALSE),
    r    |-> Rep(2, -60, 20, 600, CU, StRevised, 1, 0, 10, Red,
                 FALSE, "", 5, "", "USGS", FALSE),
    rlow |-> Rep(2, 0, 20, 600, CU, StPreliminary, 1, 0, 10, Red,
                 FALSE, "", 0, "", "USGS", FALSE),
    rsea |-> Rep(2, -60, 20, 600, CU, StRevised, 1, 0, 10, Red,
                 FALSE, "", 0, "text", "USGS", FALSE),
    \* automatic detections carrying an alert colour
    yauto |-> Rep(1, -60, 10, 600, CU, StDetection, 0, 0, 10, Yellow,
                 FALSE, "", 0, "", "JMA", FALSE),
    rauto |-> Rep(2, -60, 20, 600, CU, StDetection, 1, 0, 10, Red,
                 FALSE, "", 0, "", "USGS", FALSE),
    w    |-> Rep(2, -60, 20, 500, CU, StRevised, 1, 0, 10, 0,
                 FALSE, "", 0, "", "USGS", FALSE),
    \* two revised reports 300 km and 250 s apart, of halved score
    yfar |-> Rep(1, -250, 10, 600, CU \div 2, StRevised, 0, 0, 10, Yellow,
                 FALSE, "", 0, "", "JMA", FALSE),
    rfar |-> Rep(2, 0, 20, 600, CU \div 2, StRevised, 300, 0, 10, Red,
                 FALSE, "", 0, "", "USGS", FALSE),
    \* an agency report of low score and two crowdsourced ones
    low  |-> Rep(1, 30, 35, 450, CU \div 4, StPreliminary, 10, 0, 10, 0,
                 FALSE, "", 0, "", "EMSC", FALSE),
    wit  |-> Rep(2, 40, 45, 500, (3 * CU) \div 10, StGuessed, 5, 20, 10, 0,
                 TRUE, "eq", 0, "", "", TRUE),
    neg  |-> Rep(2, 40, 50, 500, 0 - (CU \div 5), StGuessed, 8, 20, 10, 0,
                 TRUE, "alert", 0, "", "", TRUE),
    \* a crowdsourced report posted five minutes after the earthquake
    wit2 |-> Rep(2, 50, 300, 500, (3 * CU) \div 10, StGuessed, 6, 20, 10, 0,
                 TRUE, "eq", 0, "", "", TRUE),
    \* three crowdsourced reports of the first seconds of an earthquake, and
    \* the automatic detection of a network, of a higher magnitude
    wit3 |-> Rep(2, -30, -25, 500, (3 * CU) \div 10, StGuessed, 6, 20, 10, 0,
                 TRUE, "eq", 0, "", "", TRUE),
    wit4 |-> Rep(2, -29, -24, 500, (3 * CU) \div 10, StGuessed, 4, 20, 10, 0,
                 TRUE, "eq", 0, "", "", TRUE),
    wit5 |-> Rep(2, -28, -23, 500, (3 * CU) \div 10, StGuessed, 5, 20, 10, 0,
                 TRUE, "eq", 0, "", "", TRUE),
    auto |-> Rep(3, -30, -10, 580, CU, StDetection, 5, 0, 10, 0,
                 FALSE, "", 0, "", "GFZ", FALSE),
    \* two picks of three stations each, by two networks, of one earthquake,
    \* and an earlier earthquake elsewhere in the same region
    pick  |-> Rep(2, 40, 45, 500, CU \div 2, StGuessed, 5, 20, 10, 0,
                 FALSE, "", 0, "", "INGV", FALSE),
    pick2 |-> Rep(3, 42, 47, 500, CU \div 2, StGuessed, 6, 20, 10, 0,
                 FALSE, "", 0, "", "GFZ", FALSE),
    zfar |-> Rep(1, -500, 5, 480, CU, StConfirmed, 150, 0, 10, 0,
                 FALSE, "", 0, "", "JMA", FALSE),
    \* reports the gates of the manager turn away
    old  |-> Rep(1, -50000, -45000, 500, CU, StConfirmed, 0, 0, 10, 0,
                 FALSE, "", 0, "", "JMA", FALSE),
    pre  |-> Rep(1, -300, -100, 500, CU, StConfirmed, 0, 0, 10, 0,
                 FALSE, "", 0, "", "JMA", FALSE),
    tiny |-> Rep(1, -120, 10, 200, CU, StConfirmed, 0, 0, 10, 0,
                 FALSE, "", 0, "", "JMA", FALSE),
    wide |-> Rep(1, -120, 10, 500, CU, StConfirmed, 0, 1200, 10, 0,
                 FALSE, "", 0, "", "JMA", FALSE),
    \* an earthquake of 67 minutes ago as two agencies have just published it
    past  |-> Rep(1, -4000, 10, 500, CU, StConfirmed, 0, 0, 10, 0,
                  FALSE, "", 0, "", "JMA", FALSE),
    past2 |-> Rep(2, -4000, 20, 510, CU, StRevised, 2, 0, 10, 0,
                  FALSE, "", 0, "", "USGS", FALSE),
    \* three locations of one moment, 200 km from one to the next; the
    \* easternmost carries a green alert
    west   |-> Rep(1, -120, 10, 600, CU, StRevised, 0, 0, 10, 0,
                   FALSE, "", 0, "", "JMA", FALSE),
    centre |-> Rep(3, -120, 10, 600, CU, StRevised, 200, 0, 10, 0,
                   FALSE, "", 0, "", "EMSC", FALSE),
    east   |-> Rep(2, -120, 10, 600, CU, StRevised, 400, 0, 10, Green,
                   FALSE, "", 0, "", "USGS", FALSE),
    \* a second report close to the westernmost location
    near   |-> Rep(1, -120, 10, 600, CU, StRevised, 30, 0, 10, 0,
                   FALSE, "", 0, "", "JMA", FALSE),
    fut  |-> Rep(2, 400, 10, 500, CU, StConfirmed, 0, 0, 10, 0,
                 FALSE, "", 0, "", "JMA", FALSE),
    \* an earthquake of 50 hours ago whose entry the agency has just updated
    stale |-> Rep(1, -180000, 10, 500, CU, StConfirmed, 0, 0, 10, 0,
                 FALSE, "", 0, "", "USGS", FALSE) ]

Rids == DOMAIN Catalogue

\* the sets of reports one run can receive: what the configured sources
\* deliver
Feeds ==
  { {"a", "a2", "b"},
    {"y", "r", "rlow"},
    {"y", "w", "rsea"},
    {"yauto", "r", "rauto"},
    {"yfar", "rfar"},
    {"low", "wit", "neg"},
    {"a", "y", "rlow"},
    {"old", "pre", "tiny"},
    {"wide", "fut", "stale"} }



----------------------------------------------------------------------------
(* A report on the fusion channel: the catalogue content, the name of that *)
(* content and the arrival number that tells two deliveries apart.         *)

MkReport(rid, seq) ==
  [rid |-> rid, seq |-> seq] @@ Catalogue[rid]

\* Report.confidence
ReportConfidence(r) == clip((r.score * r.status) \div CU, 1, CU)

\* exp(0.666*mag + 1.2), in tenths of a kilometre, tabulated every 0.5
\* magnitude from 0.0 to 10.0 and interpolated linearly in between
ExpTable ==
  <<33, 46, 65, 90, 126, 175, 245, 342, 477, 665, 928, 1294, 1805, 2519,
    3514, 4903, 6840, 9543, 13314, 18575, 25915, 25915>>

ExpMag(mag) ==
  LET i == Min(mag \div 50, 20) + 1
      f == IF mag >= 1000 THEN 0 ELSE mag % 50
  IN  ExpTable[i] + ((ExpTable[i + 1] - ExpTable[i]) * f) \div 50

\* depth ** 0.2, in thousandths, for whole kilometres
DepthTable ==
  <<1000, 1149, 1246, 1320, 1380, 1431, 1476, 1516, 1552, 1585, 1615, 1644,
    1670, 1695, 1719, 1741, 1762, 1783, 1802, 1821, 1838, 1856, 1872, 1888,
    1904, 1919, 1933, 1947, 1961, 1974, 1987, 2000, 2012, 2024, 2036, 2048,
    2059, 2070, 2081, 2091>>

DepthPow(depth) ==
  IF depth <= 40 THEN DepthTable[Max(depth, 1)]
  ELSE IF depth <= 100 THEN 2091 + ((depth - 40) * 7)
  ELSE IF depth <= 700 THEN 2512 + ((depth - 100) * 2)
  ELSE 3712

\* the radius formula shared by Report.radius and Event.radius
RadiusOf(mag, depth) == Min(800, (ExpMag(mag) * DepthPow(depth)) \div 10000)

\* Report.radius
ReportRadius(r) == RadiusOf(r.mag, r.depth)

\* Report.official
ReportOfficial(r) == r.status >= StPreliminary /\ r.crad < 300

\* Report.crowdsourced
ReportCrowdsourced(r) == r.status <= StGuessed /\ r.text /\ r.score > 0

\* Report.priority at time t is PriorityNum(r) * 30 / PriorityDen(r, t)
PriorityNum(r) == ReportConfidence(r) * r.mag
PriorityDen(r, t) == clip(t - r.time, 1, 3600)

\* a.priority > b.priority, both read at time t
PriorityGreater(a, b, t) ==
  FracLess(PriorityNum(b), PriorityDen(b, t), PriorityNum(a), PriorityDen(a, t))

\* the weight Coords.center gives a child: its priority, scaled to an integer
CenterWeight(r, t) == Max(1, (30 * PriorityNum(r)) \div (100000 * PriorityDen(r, t)))

\* Coords.__sub__: distance plus the radius penalty
CoordsSub(pos1, rad1, pos2, rad2) ==
  LET distance == Abs(pos1 - pos2)
  IN  distance + Max(distance \div 2, (rad1 + rad2) \div 4)

\* Coords.round: the position is already on the grid; the radius becomes
\* the distance between the rounded copy (radius 0) and the original
RoundRadius(rad) == Max(0, CoordsSub(0, 0, 0, rad))

\* Report.travel: the external travel-time oracle (slowest S arrival, in
\* seconds) for a depth rounded to 10 km and a distance in km
Travel(depth, distance) == (2 * (Round10(depth) + distance)) \div 7


----------------------------------------------------------------------------
(* Report.__eq__, the fusion predicate.  It reads the same attributes of a *)
(* Report and of an Event, so both are first projected on a common view.   *)

\* Report.__repr__ of a plain report
ReportRepr(r) ==
  <<"Report", r.pos, r.depth, r.crad, r.mag, r.time, r.score,
    ReportConfidence(r), IF r.src = "" THEN <<>> ELSE <<r.src>>, r.alert,
    r.status, IF r.kw = "" THEN {} ELSE {r.kw}, 1>>

ReportView(r) ==
  [repr |-> ReportRepr(r), mag |-> r.mag, time |-> r.time, pos |-> r.pos,
   crad |-> r.crad, conf |-> ReportConfidence(r), depth |-> r.depth,
   radius |-> ReportRadius(r)]

\* Report.__eq__
ReportEq(s, o) ==
  IF s.repr = o.repr THEN TRUE
  ELSE IF s.mag = 0 \/ o.mag = 0 THEN FALSE
  ELSE IF Abs(s.mag - o.mag) > 250 THEN FALSE
  ELSE IF Abs(s.time - o.time) > 300 THEN FALSE
  ELSE IF CoordsSub(s.pos, s.crad, o.pos, o.crad) > 600 THEN FALSE
  ELSE
    LET apart == CoordsSub(s.pos, s.crad, o.pos, o.crad)
        confidence == Min(s.conf, o.conf)
        depth == Round10(Max(s.depth, o.depth))
        distance == Round10(apart)
        travel == Max(Travel(depth, distance), 0)
    IN  /\ ~(Abs(s.time - o.time) > clip((travel * CU) \div confidence, 60, 300))
        /\ ~(apart > clip(((s.radius + o.radius) * CU) \div Max(CU \div 2, confidence),
                          100, 500))


----------------------------------------------------------------------------
(* Event: the fusion of reports (Event.__init__ and its properties)        *)

\* sorted(children, key=confidence, reverse=True): a stable sort
RECURSIVE InsertByConfidence(_, _)
InsertByConfidence(sorted, c) ==
  IF sorted = <<>> THEN <<c>>
  ELSE IF ReportConfidence(Head(sorted)) >= ReportConfidence(c)
       THEN <<Head(sorted)>> \o InsertByConfidence(Tail(sorted), c)
       ELSE <<c>> \o sorted

RECURSIVE SortByConfidence(_)
SortByConfidence(children) ==
  IF children = <<>> THEN <<>>
  ELSE InsertByConfidence(SortByConfidence(SubSeq(children, 1, Len(children) - 1)),
                          children[Len(children)])

ConfidenceSum(children) ==
  SumSeq([i \in 1..Len(children) |-> ReportConfidence(children[i])])

\* a variant of Event.best that keeps every child
BestOfAll(children) ==
  LET sorted == SortByConfidence(children)
  IN  [i \in 1..Len(sorted) |-> [child |-> sorted[i], keep |-> TRUE]]

\* a variant of Event.best that still takes a child when the ones before it
\* add up to exactly 1.0
BestInclusive(children) ==
  LET sorted == SortByConfidence(children)
  IN  SelectSeq([i \in 1..Len(sorted) |->
                   [child |-> sorted[i],
                    keep |-> ConfidenceSum(SubSeq(sorted, 1, i - 1)) <= CU]],
                LAMBDA x: x.keep)

\* Event.best
Best(children) ==
  LET sorted == SortByConfidence(children)
  IN  SelectSeq([i \in 1..Len(sorted) |->
                   [child |-> sorted[i],
                    keep |-> ConfidenceSum(SubSeq(sorted, 1, i - 1)) < CU]],
                LAMBDA x: x.keep)

BestChildren(children) ==
  LET b == Best(children) IN [i \in 1..Len(b) |-> b[i].child]

\* Event.witnesses
Witnesses(children, time) ==
  SelectSeq(children, LAMBDA c: ReportCrowdsourced(c) /\ c.update < time + 600)

\* Event.official, as the list of official children
OfficialChildren(children) == SelectSeq(children, ReportOfficial)

\* child in self.witnesses
InList(c, list) ==
  \E i \in 1..Len(list): ReportEq(ReportView(c), ReportView(list[i]))

\* Report.tsunami of a child
ReportTsunami(r) ==
  r.water = "text" \/ (r.mag > 730 /\ r.depth < 60 /\ r.water = "sea")

\* Coords.center of the best children weighted by priority, then .round()
CenterPos(best, t) ==
  SumSeq([i \in 1..Len(best) |-> best[i].pos * CenterWeight(best[i], t)])
    \div SumSeq([i \in 1..Len(best) |-> CenterWeight(best[i], t)])

CenterDepth(best, t) ==
  SumSeq([i \in 1..Len(best) |-> best[i].depth * CenterWeight(best[i], t)])
    \div SumSeq([i \in 1..Len(best) |-> CenterWeight(best[i], t)])

CenterRadius(best, t) ==
  LET c == CenterPos(best, t)
      sq(i) == CoordsSub(best[i].pos, best[i].crad, c, 0)
                 * CoordsSub(best[i].pos, best[i].crad, c, 0)
      mean == SumSeq([i \in 1..Len(best) |-> sq(i) * CenterWeight(best[i], t)])
                \div SumSeq([i \in 1..Len(best) |-> CenterWeight(best[i], t)])
  IN  RoundRadius(ISqrt(4 * mean))

\* Report.Magnitude.__new__: a value of 9.7 or more becomes 3.0
Magnitude(value) == IF value < 970 THEN value ELSE 300

\* Event.radius
EventRadius(best, confidence, witnesses, pos, crad) ==
  LET weight == Min(90, Len(witnesses) * 3)
      mean == SumSeq([i \in 1..Len(best) |->
                        ReportRadius(best[i]) * ReportConfidence(best[i])])
                \div confidence
      points == [i \in 1..Len(witnesses) |->
                   CoordsSub(pos, crad, witnesses[i].pos, witnesses[i].crad)]
      avg == SumSeq(points) \div Len(points)
      dev == ISqrt(SumSeq([i \in 1..Len(points) |->
                             (points[i] - avg) * (points[i] - avg)])
                     \div (Len(points) - 1))
      felt == IF Len(points) > 1 THEN avg + dev ELSE mean
  IN  Min(800, (felt * weight + mean * (100 - weight)) \div 100)


\* Event.__repr__ (inherited from Report), on the event's own attributes
EventRepr(e) ==
  <<"Notice", e.pos, e.depth, e.crad, e.mag, e.time, e.score, e.confidence,
    SubSeq(e.sources, 1, Min(4, Len(e.sources))), e.alert, e.status,
    e.keywords, Len(e.children)>>

EventView(e) ==
  [repr |-> EventRepr(e), mag |-> e.mag, time |-> e.time, pos |-> e.pos,
   crad |-> e.crad, conf |-> e.confidence, depth |-> e.depth,
   radius |-> e.radius]

\* Report.__nonzero__ of an event: bool(coords and time and mag)
Truthy(e) == e.ok /\ e.mag # 0

\* a variant of the search that takes the first event of the history
\* without comparing it with the report
FindPreviousUncompared(report, hist) ==
  LET hits == {i \in 1..Len(hist): Truthy(hist[i])}
  IN  IF hits = {} THEN 0 ELSE CHOOSE i \in hits: \A j \in hits: i <= j

\* the first event of the history that absorbs the report, 0 when none does
FindPrevious(report, hist) ==
  LET hits == {i \in 1..Len(hist):
                 /\ Truthy(hist[i])
                 /\ \/ ReportEq(ReportView(report), EventView(hist[i]))
                    \/ InList(report, hist[i].children)}
  IN  IF hits = {} THEN 0 ELSE CHOOSE i \in hits: \A j \in hits: i <= j

\* the index deque.remove(previous) deletes: the first entry that is
\* previous itself or compares equal to it
RemoveIndex(hist, previous) ==
  CHOOSE i \in 1..Len(hist):
    /\ hist[i] = previous \/ ReportEq(EventView(hist[i]), EventView(previous))
    /\ \A j \in 1..(i - 1):
         ~(hist[j] = previous \/ ReportEq(EventView(hist[j]), EventView(previous)))

\* deque(maxlen=n).append: the oldest entries fall off the left end
Bounded(seq, n) ==
  IF Len(seq) > n THEN SubSeq(seq, Len(seq) - n + 1, Len(seq)) ELSE seq

\* the children kept by the pruning step of an official event
PruneOfficial(children, witnesses) ==
  SelectSeq(children,
            LAMBDA c: InList(c, witnesses) \/ ReportConfidence(c) > CU \div 5)

\* the children after lines 1612-1616
Pruned(children, time) ==
  IF OfficialChildren(children) # <<>>
    THEN PruneOfficial(children, Witnesses(children, time))
  ELSE IF Len(children) > 1 /\ children[Len(children)].score < 0
    THEN SubSeq(children, 1, Len(children) - 1)
  ELSE children

\* the object left in Event.history when the first assertion fails: only
\* children, time and timestamp were assigned, the rest is Report.__init__
HalfBuilt(time, t) ==
  [ok |-> FALSE, children |-> <<>>, time |-> time, timestamp |-> t,
   official |-> TRUE, best |-> <<>>, confidence |-> 0, score |-> CU,
   pos |-> 0, crad |-> 0, depth |-> 0, mag |-> 0, intensity |-> 0,
   update |-> t - 60, tsunami |-> FALSE, alert |-> 0, sources |-> <<>>,
   status |-> StConfirmed, keywords |-> {}, witnesses |-> <<>>,
   radius |-> 0, victims |-> 0]

\* the attributes computed by lines 1621-1637, given the properties they
\* read: official, witnesses, best, confidence and the centre of the best;
\* victims is the None of Report.__init__ (0 here), which Event.__init__
\* never replaces
BuiltFrom(kept, time, t, official, witnesses, best, confidence, pos, crad, depth) ==
      [ok |-> TRUE, children |-> kept,
       time |-> IF official THEN best[1].time ELSE time,
       timestamp |-> t, official |-> official, best |-> best,
       confidence |-> confidence,
       score |-> SumSeq([i \in 1..Len(best) |->
                  IF best[i].status > StRejected THEN best[i].score ELSE 0 - CU]),
       pos |-> pos, crad |-> crad,
       depth |-> IF depth = 0 THEN 10 ELSE depth,
       mag |-> Magnitude(SumSeq([i \in 1..Len(best) |->
                  best[i].mag * ReportConfidence(best[i])]) \div confidence),
       intensity |-> MaxSeq([i \in 1..Len(kept) |-> kept[i].intensity]),
       update |-> MaxSeq([i \in 1..Len(kept) |-> kept[i].update]),
       tsunami |-> \E i \in 1..Len(kept): ReportTsunami(kept[i]),
       alert |-> MaxSeq([i \in 1..Len(best) |-> best[i].alert]),
       sources |-> SelectSeq([i \in 1..Len(best) |-> best[i].src],
                             LAMBDA x: x # ""),
       status |-> best[1].status,
       keywords |-> {witnesses[i].kw: i \in 1..Len(witnesses)} \ {""},
       witnesses |-> witnesses,
       radius |-> EventRadius(best, confidence, witnesses, pos, crad),
       victims |-> 0]

\* Event.best and what is derived from it
BuiltBest(kept, time, t, official, witnesses, best) ==
  BuiltFrom(kept, time, t, official, witnesses, best, ConfidenceSum(best),
            CenterPos(best, t), CenterRadius(best, t), CenterDepth(best, t))

\* Event.witnesses, read before the pruning by an official event (the cached
\* value stays) and after it otherwise
BuiltOfficial(children, kept, time, t, official) ==
  BuiltBest(kept, time, t, official,
            IF official THEN Witnesses(children, time)
                        ELSE Witnesses(kept, time),
            BestChildren(kept))

\* the event once Event.__init__ has run to its end
Built(children, kept, time, t) ==
  BuiltOfficial(children, kept, time, t, OfficialChildren(children) # <<>>)

\* lines 1618-1637: the assertions, then the attributes; the event has been
\* appended to the history (line 1610) either way
EventResult(others, previous, kept, event) ==
  [raised |-> IF kept = <<>> THEN "assert" ELSE "",
   history |-> Bounded(Append(others, event), maxreports),
   previous |-> previous, event |-> event]

EventAssert(others, previous, children, time, t, kept) ==
  EventResult(others, previous, kept,
              IF kept = <<>> THEN HalfBuilt(time, t)
                             ELSE Built(children, kept, time, t))

\* lines 1612-1616: the pruning of the children
EventPrune(others, previous, children, time, t) ==
  EventAssert(others, previous, children, time, t, Pruned(children, time))

\* lines 1599-1610: the children and the time taken over from the event at
\* index previous of the history (0: none), which leaves the history
EventMerge(report, hist, t, previous) ==
  EventPrune(IF previous = 0 THEN hist
             ELSE RemoveAt(hist, RemoveIndex(hist, hist[previous])),
             previous,
             IF previous = 0 THEN <<report>>
             ELSE SubSeq(<<report>> \o hist[previous].children, 1,
                         Min(maxreports, 1 + Len(hist[previous].children))),
             IF previous = 0 THEN report.time
             ELSE Min(report.time, hist[previous].time),
             t)

\* a variant of Event.__init__ without the test of line 1597
EventInitUnchecked(report, hist, t) ==
  EventMerge(report, hist, t, FindPrevious(report, hist))

\* Event.__init__(report) at time t on the history hist
EventInit(report, hist, t) ==
  IF report.time > t
    THEN [raised |-> "future", history |-> hist, previous |-> 0,
          event |-> HalfBuilt(report.time, t)]
  ELSE EventMerge(report, hist, t, FindPrevious(report, hist))


----------------------------------------------------------------------------
(* WorkQueue: a Queue.PriorityQueue, i.e. a binary heap (heapq) of the     *)
(* tuples (report, origin).  Positions are 1-based here.                   *)

\* (x, x.origin) < (y, y.origin) as Python compares tuples: the first
\* position where the two differ under == decides, with Report.__lt__
\* (higher priority first) for the reports and the fixed order of the
\* receiver objects for the origins
ItemLess(x, y, t) ==
  IF "id" \in DOMAIN x
    THEN \* (notice, manager) pairs: the origins are one and the same object
         /\ x.id # y.id
         /\ ~ReportEq(EventView(x), EventView(y))
         /\ x.confidence * x.mag > y.confidence * y.mag
    ELSE IF x.seq = y.seq \/ ReportEq(ReportView(x), ReportView(y))
           THEN x.origin < y.origin
           ELSE PriorityGreater(x, y, t)

\* heapq._siftdown(heap, startpos, pos) carrying newitem
RECURSIVE SiftDown(_, _, _, _, _)
SiftDown(heap, startpos, pos, newitem, t) ==
  IF pos > startpos /\ ItemLess(newitem, heap[pos \div 2], t)
    THEN SiftDown([heap EXCEPT ![pos] = heap[pos \div 2]], startpos,
                  pos \div 2, newitem, t)
    ELSE [heap EXCEPT ![pos] = newitem]

\* a variant of the push for a plain Queue.Queue: first in, first out
HeapPushLast(heap, item, t) == Append(heap, item)

\* heapq.heappush
HeapPush(heap, item, t) ==
  SiftDown(Append(heap, item), 1, Len(heap) + 1, item, t)

\* heapq._siftup(heap, pos) carrying newitem: the smaller child moves up
\* until a leaf is reached, then newitem is sifted down from there
RECURSIVE SiftUp(_, _, _, _)
SiftUp(heap, pos, newitem, t) ==
  LET left == 2 * pos
      right == left + 1
      child == IF right <= Len(heap) /\ ~ItemLess(heap[left], heap[right], t)
                 THEN right ELSE left
  IN  IF left <= Len(heap)
        THEN SiftUp([heap EXCEPT ![pos] = heap[child]], child, newitem, t)
        ELSE SiftDown(heap, 1, pos, newitem, t)

\* heapq.heappop: the item returned and the heap left behind
HeapTop(heap) == heap[1]

HeapRest(heap, t) ==
  LET lastelt == heap[Len(heap)]
      shorter == SubSeq(heap, 1, Len(heap) - 1)
  IN  IF shorter = <<>> THEN <<>> ELSE SiftUp(shorter, 1, lastelt, t)


----------------------------------------------------------------------------
(* The Monitor's configuration: its threads, the recipients registered by  *)
(* Monitor.notify with their domains, and the regions of where.region.     *)

\* Monitor.__init__: self.start(input=queue, threads=2)
MonitorThreads == 2

\* Domain.__init__: the attributes Domain.significance and Domain.relevance
\* read; 0, {}, "", <<>> and -1 stand for an attribute that is not set.  No
\* registered domain has a threshold, a region, a box, a rate or a people
\* floor
Dom(mag, score, categories, alert, reports, warning, updates, target, tradius, empty) ==
  [mag |-> mag, score |-> score, categories |-> categories, alert |-> alert,
   reports |-> reports, warning |-> warning, updates |-> updates,
   target |-> target, tradius |-> tradius, empty |-> empty,
   threshold |-> 0, region |-> "", box |-> <<>>, rate |-> 0, people |-> 0]

Domains ==
  [ major |-> Dom(550, (9 * CU) \div 100, {"earthquake"}, 0, 0, FALSE, TRUE,
                  -1, 0, FALSE),
    all   |-> Dom(300, (9 * CU) \div 100, {"earthquake"}, 0, 0, FALSE, TRUE,
                  -1, 0, FALSE),
    news  |-> Dom(300, (9 * CU) \div 100, {"earthquake"}, 0, 0, FALSE, FALSE,
                  -1, 0, FALSE),
    \* Domain(mag=2.0, categories=['alert'], threshold=Threshold()): the
    \* initial average of a Threshold is 0.05
    watch |-> [Dom(200, (9 * CU) \div 100, {"alert"}, 0, 0, FALSE, TRUE,
                   -1, 0, FALSE) EXCEPT !.threshold = CU \div 20] ]

\* a recipient registered with the domain that takes no updates and the one
\* that has a threshold: the one of higher magnitude sorts first
WatchRecipients ==
  << [recipient |-> "r2", domain |-> "news"],
     [recipient |-> "r2", domain |-> "watch"] >>

\* Monitor.recipients after notify() has sorted it: recipient r1 with two
\* domains (the one of higher magnitude sorts first), recipient r2 with one,
\* which takes no updates
MonitorRecipients ==
  << [recipient |-> "r1", domain |-> "major"],
     [recipient |-> "r1", domain |-> "all"],
     [recipient |-> "r2", domain |-> "news"] >>

Recipients == {MonitorRecipients[i].recipient: i \in 1..Len(MonitorRecipients)}

\* where.region of a position
RegionBorder == 200
RegionOf(pos) == IF pos < RegionBorder THEN "west" ELSE "east"

\* where.locate of a position: it returns None beyond the charted area
Charted == 250
Located(pos) == pos < Charted

\* a Monitor thread waiting for the next notice; waited tells that the
\* thread found the lock of the region held at "with self.locks[...]"
Idle ==
  [pc |-> "idle", id |-> 0, targets |-> <<>>, snapshot |-> <<>>,
   cursor |-> 0, delivered |-> [r \in Recipients |-> ""], waited |-> FALSE]

\* the sets of reports whose notices one run hands to the Monitor
MonitorFeeds ==
  { {"a", "a2", "z"},
    {"y", "rsea", "rfar"},
    {"a", "late", "mid"},
    {"pick", "pick2", "zfar"},
    {"pick", "pick2", "late"} }

----------------------------------------------------------------------------
(* FeedManager                                                             *)

\* the entries of a TTLCache that have not expired at time t
Alive(cache, ttl, t) == SelectSeq(cache, LAMBDA inserted: inserted + ttl >= t)

\* the entry recent[None] / trend[None] made when the class is created
NoneAlive(ttl, t) == Started + ttl >= t

CacheLen(cache, ttl, t) ==
  Len(Alive(cache, ttl, t)) + (IF NoneAlive(ttl, t) THEN 1 ELSE 0)

\* FeedManager.process.adjust: the caches and the slider after the call
AdjustRecent(t) == Append(Alive(recent, recentTTL, t), t)
AdjustTrend(t) == Append(Alive(trend, trendTTL, t), t)

AdjustSlider(t) ==
  LET nr == Len(AdjustRecent(t)) + (IF NoneAlive(recentTTL, t) THEN 1 ELSE 0)
      nt == Len(AdjustTrend(t)) + (IF NoneAlive(trendTTL, t) THEN 1 ELSE 0)
      ratio == (nr * trendTTL * CU) \div (nt * recentTTL)
      factor == IF NoneAlive(trendTTL, t)
                  THEN Min(CU, (nt * recentTTL * CU) \div (nr * trendTTL))
                  ELSE ratio
  IN  (slider * 95 + clip(factor, (7 * CU) \div 10, (15 * CU) \div 10) * 5) \div 100

\* a variant of the gates without the test of coords.radius
GateAnyRadius(report, t) ==
  IF report.update < t - maxage THEN "old"
  ELSE IF report.update < Started THEN "early"
  ELSE IF report.mag < threshold THEN "weak"
  ELSE IF ReportRepr(report) \in DOMAIN dejavu THEN "replay"
  ELSE ""

\* the gates of FeedManager.process in order; "" when the report passes
Gate(report, t) ==
  IF report.update < t - maxage THEN "old"
  ELSE IF report.update < Started THEN "early"
  ELSE IF report.mag < threshold THEN "weak"
  ELSE IF report.crad > precision THEN "vague"
  ELSE IF ReportRepr(report) \in DOMAIN dejavu THEN "replay"
  ELSE ""

\* a variant of the membership test that stamps the key on every call
SeenRestamped(store, key, t) ==
  [k \in DOMAIN store \cup {key} |-> IF k = key THEN t ELSE store[k]]

\* EventDatabase.__contains__: the store after the membership test
Seen(store, key, t) ==
  IF key \in DOMAIN store THEN store ELSE store @@ (key :> t)

\* notice in self.history
InHistory(notice, list) ==
  \E i \in 1..Len(list): ReportEq(EventView(notice), EventView(list[i]))

\* FeedManager.process from "notice = Notice(report, provider=origin)" on,
\* built being what Event.__init__ made of the report; the function has no
\* yield, so nothing is put on the output queue
ProcessFused(item, gate, adjusted, report, built) ==
  /\ input' = HeapRest(input, now)
  /\ dejavu' = IF gate \in {"", "replay"}
                 THEN Seen(dejavu, ReportRepr(item), now) ELSE dejavu
  /\ IF adjusted
       THEN /\ recent' = AdjustRecent(now)
            /\ trend' = AdjustTrend(now)
            /\ slider' = AdjustSlider(now)
       ELSE UNCHANGED <<recent, trend, slider>>
  /\ history' = IF gate = "" THEN built.history ELSE history
  /\ mhistory' = IF /\ gate = "" /\ built.raised = ""
                    /\ built.event.confidence > CU \div 2
                    /\ ~InHistory(built.event, mhistory)
                   THEN Bounded(Append(mhistory, built.event), managerHistoryLen)
                   ELSE mhistory
  /\ log' = Append(log,
       [seq |-> item.seq, rid |-> item.rid, at |-> now,
        repr |-> ReportRepr(item), report |-> report,
        outcome |-> IF gate # "" THEN gate
                    ELSE IF built.raised # "" THEN built.raised
                    ELSE "fused",
        absorbed |-> IF gate = "" /\ built.previous # 0
                       THEN <<history[built.previous]>> ELSE <<>>,
        notice |-> IF gate = "" THEN built.event ELSE HalfBuilt(0, 0)])
  /\ UNCHANGED output

\* "if report.confidence < 0.4: report.score *= adjust(report)"
ProcessAdjusted(item, gate, adjusted) ==
  ProcessFused(item, gate, adjusted,
               IF adjusted
                 THEN [item EXCEPT !.score = (item.score * AdjustSlider(now)) \div CU]
                 ELSE item,
               EventInit(IF adjusted
                           THEN [item EXCEPT !.score =
                                   (item.score * AdjustSlider(now)) \div CU]
                           ELSE item,
                         history, now))

\* FeedManager.process once the gates have answered
ProcessGated(item, gate) ==
  ProcessAdjusted(item, gate,
                  gate = "" /\ ReportConfidence(item) < (2 * CU) \div 5)

\* the state once setup() has constructed the manager and the monitor and
\* the recipients are registered; sources is the family the feed is drawn from
Start(sources) ==
  /\ now = Started
  /\ input = <<>>
  /\ output = <<>>
  /\ history = <<>>
  /\ mhistory = <<>>
  /\ dejavu = <<>>
  /\ recent = <<>>
  /\ trend = <<>>
  /\ slider = CU \div 5
  /\ feed \in sources
  /\ arrivals = 0
  /\ log = <<>>
  /\ notices = <<>>
  /\ tags = <<>>
  /\ mon = [th \in 1..MonitorThreads |-> Idle]
  /\ dhistory = [d \in DOMAIN Domains |-> <<>>]
  /\ locks = {}
  /\ slowdown = 1000
  /\ sent = {}
  /\ streams = {}
  /\ remembered = [d \in DOMAIN Domains |-> <<>>]

\* no adapter is registered: the runs of the fusion pipeline and of the
\* Monitor are given their reports directly
NoReceivers == receivers = {} /\ polls = 0

\* no Worker but the FeedManager and the Monitor is looked at
NoWorker == winput = <<>> /\ woutput = <<>> /\ wthreads = <<>> /\ wdone = {}

\* no polling adapter has been constructed and nothing has been metered
NoPollers ==
  pollers = <<>> /\ semaphore = 2 /\ lfu = {} /\ yielded = {} /\ ticks = 0

NoMeter == meter = <<>>
NoPacing == pacing = <<>>
NoProbe == probe = <<>>
NoLearner == learner = <<>>
NoSink == sink = <<>>

Init == Start(Feeds) /\ NoReceivers /\ NoWorker
  /\ NoPollers /\ NoMeter /\ NoPacing /\ NoProbe /\ NoLearner /\ NoSink

\* time passes
Tick ==
  /\ now < Started + MaxTicks * TickStep
  /\ now' = now + TickStep
  /\ UNCHANGED <<output, history, feed, arrivals, fvars, mvars, xvars>>

\* a receiver's worker puts a parsed report on the fusion channel
PutUpTo(rid, most) ==
  /\ rid \in feed
  /\ arrivals < most
  /\ arrivals' = arrivals + 1
  /\ input' = HeapPush(input, MkReport(rid, arrivals + 1), now)
  /\ UNCHANGED <<now, output, history, mhistory, dejavu, recent, trend,
                 slider, feed, log, mvars, xvars>>

Put(rid) == PutUpTo(rid, MaxPuts)

\* one round of Worker.start.run for the FeedManager: dequeue a report and
\* run FeedManager.process on it
Process ==
  /\ input # <<>>
  /\ ProcessGated(HeapTop(input), Gate(HeapTop(input), now))
  /\ UNCHANGED <<now, feed, arrivals, mvars, xvars>>

Next ==
  \/ Tick
  \/ \E rid \in Rids: Put(rid)
  \/ Process

Spec == Init /\ [][Next]_vars

----------------------------------------------------------------------------
(* Notice: classification of an event and the supersede decision           *)

\* Notice.category, with one language table: the keyword "eq" is in the
\* earthquake list, the keyword "alert" in the alert list
Category(e) ==
  IF e.official \/ e.sources # <<>> THEN "earthquake"
  ELSE IF "eq" \in e.keywords THEN "earthquake"
  ELSE IF "alert" \in e.keywords THEN "alert"
  ELSE "earthquake"

\* Notice.elapsed
Elapsed(e, minutes, t) == e.time < t - minutes * 60

\* Report.Severity.duration, in minutes
Duration(alert) ==
  CASE alert = Green -> 120
    [] alert = Yellow -> 180
    [] alert = Orange -> 240
    [] alert = Red -> 300
    [] OTHER -> 60

\* a variant of Notice.timely without the rule of the first three minutes
TimelyUnwarned(e, t) ==
  IF ~Elapsed(e, 7, t) /\ Category(e) # "earthquake" THEN "emergency"
  ELSE IF ~Elapsed(e, 10, t) /\ e.confidence >= CU \div 5 THEN "breaking"
  ELSE IF ~Elapsed(e, 15, t) /\ e.confidence >= (2 * CU) \div 5 THEN "preliminary"
  ELSE IF ~Elapsed(e, 20, t) /\ e.confidence >= CU \div 5 THEN "fresh"
  ELSE "None"

\* a variant of Notice.timely with the alert rule ahead of the tsunami rule
TimelyAlertFirst(e, t) ==
  IF ~Elapsed(e, 3, t) THEN "warning"
  ELSE IF ~Elapsed(e, 7, t) /\ Category(e) # "earthquake" THEN "emergency"
  ELSE IF ~Elapsed(e, 10, t) /\ e.confidence >= CU \div 5 THEN "breaking"
  ELSE IF ~Elapsed(e, 15, t) /\ e.confidence >= (2 * CU) \div 5 THEN "preliminary"
  ELSE IF ~Elapsed(e, 20, t) /\ e.confidence >= CU \div 5 THEN "fresh"
  ELSE IF ~Elapsed(e, 60, t) /\ e.official THEN "official"
  ELSE IF ~Elapsed(e, Duration(e.alert), t) THEN "alert"
  ELSE IF ~Elapsed(e, 120, t) /\ e.tsunami THEN "tsunami"
  ELSE IF e.victims # 0
          /\ ~Elapsed(e, clip(e.victims * 100, 1440, 10080), t) THEN "victims"
  ELSE "None"

\* Notice.timely at time t ("None" when no rule fires)
Timely(e, t) ==
  IF ~Elapsed(e, 3, t) THEN "warning"
  ELSE IF ~Elapsed(e, 7, t) /\ Category(e) # "earthquake" THEN "emergency"
  ELSE IF ~Elapsed(e, 10, t) /\ e.confidence >= CU \div 5 THEN "breaking"
  ELSE IF ~Elapsed(e, 15, t) /\ e.confidence >= (2 * CU) \div 5 THEN "preliminary"
  ELSE IF ~Elapsed(e, 20, t) /\ e.confidence >= CU \div 5 THEN "fresh"
  ELSE IF ~Elapsed(e, 60, t) /\ e.official THEN "official"
  ELSE IF ~Elapsed(e, 120, t) /\ e.tsunami THEN "tsunami"
  ELSE IF ~Elapsed(e, Duration(e.alert), t) THEN "alert"
  ELSE IF e.victims # 0
          /\ ~Elapsed(e, clip(e.victims * 100, 1440, 10080), t) THEN "victims"
  ELSE "None"

\* Report.arrival(radius=...): the slowest arrival at that distance
Arrival(e, radius) == Travel(e.depth, radius)

\* Notice.early at time t, as its truth value
Early(e, t) ==
  IF Timely(e, t) \notin {"warning", "emergency"} THEN FALSE
  ELSE IF Category(e) # "earthquake" THEN TRUE
  ELSE e.time + 20 + Arrival(e, e.radius + Min(200, e.crad)) > t

\* Event.warners
Warners(e) ==
  SelectSeq(e.witnesses, LAMBDA c: c.update < e.time + Arrival(e, e.radius))

\* str(self.alert)
AlertName(alert) ==
  CASE alert = Green -> "green"
    [] alert = Yellow -> "yellow"
    [] alert = Orange -> "orange"
    [] alert = Red -> "red"
    [] OTHER -> "None"

\* a variant of Notice.supersedes without the test on confidence and status
\* and with the magnitude test on the absolute difference
SupersedesEitherWay(s, o, t) ==
  IF Early(s, t) /\ ~s.official THEN "False"
  ELSE IF ~ReportEq(EventView(s), EventView(o)) THEN "False"
  ELSE
    LET confidence == Max(clip(s.confidence, CU \div 100, CU),
                          clip(o.confidence, CU \div 100, CU))
    IN  IF s.status > StIncomplete /\ s.tsunami /\ ~o.tsunami THEN "tsunami"
        ELSE IF s.official /\ ~o.official THEN "official"
        ELSE IF s.alert > Green /\ s.alert > o.alert THEN AlertName(s.alert)
        ELSE IF Abs(s.mag - o.mag) > clip((25 * CU) \div confidence, 15, 300)
          THEN "stronger"
        ELSE "None"

\* a variant of Notice.supersedes with the throttling test ahead of the
\* alert, magnitude and intensity reasons
SupersedesThrottled(s, o, t) ==
  IF Early(s, t) /\ ~s.official THEN "False"
  ELSE IF ~(s.confidence >= o.confidence) /\ ~(s.status > o.status) THEN "False"
  ELSE IF ~ReportEq(EventView(s), EventView(o)) THEN "False"
  ELSE
    LET confidence == Max(clip(s.confidence, CU \div 100, CU),
                          clip(o.confidence, CU \div 100, CU))
    IN  IF s.status > StIncomplete /\ s.tsunami /\ ~o.tsunami THEN "tsunami"
        ELSE IF s.official /\ ~o.official THEN "official"
        ELSE IF s.timestamp - o.timestamp < throttling THEN "False"
        ELSE IF s.alert > Green /\ s.alert > o.alert THEN AlertName(s.alert)
        ELSE IF s.mag - o.mag > clip((25 * CU) \div confidence, 15, 300) THEN "stronger"
        ELSE IF s.intensity # 0 /\ o.intensity # 0 /\ s.intensity > o.intensity
          THEN "worse"
        ELSE "None"

\* a variant of Notice.supersedes with the magnitude decrease ahead of the
\* details of an early notice
SupersedesWeakerFirst(s, o, t) ==
  IF Early(s, t) /\ ~s.official THEN "False"
  ELSE IF ~(s.confidence >= o.confidence) /\ ~(s.status > o.status) THEN "False"
  ELSE IF ~ReportEq(EventView(s), EventView(o)) THEN "False"
  ELSE
    LET confidence == Max(clip(s.confidence, CU \div 100, CU),
                          clip(o.confidence, CU \div 100, CU))
    IN  IF s.status > StIncomplete /\ s.tsunami /\ ~o.tsunami THEN "tsunami"
        ELSE IF s.official /\ ~o.official THEN "official"
        ELSE IF s.alert > Green /\ s.alert > o.alert THEN AlertName(s.alert)
        ELSE IF s.mag - o.mag > clip((25 * CU) \div confidence, 15, 300) THEN "stronger"
        ELSE IF s.intensity # 0 /\ o.intensity # 0 /\ s.intensity > o.intensity
          THEN "worse"
        ELSE IF s.timestamp - o.timestamp < throttling THEN "False"
        ELSE IF /\ Early(o, t) /\ s.witnesses # <<>> /\ Warners(s) # <<>>
                /\ Len(s.witnesses) - Len(Warners(s)) = 10 THEN "felt"
        ELSE IF o.mag - s.mag > clip((40 * CU) \div confidence, 30, 300) THEN "weaker"
        ELSE IF Early(o, t) /\ s.confidence > CU \div 2 THEN "detailed"
        ELSE IF /\ s.crad < o.crad
                /\ CoordsSub(s.pos, s.crad, o.pos, o.crad)
                     > clip(s.radius + o.radius, 20, 300) THEN "epicenter"
        ELSE IF /\ s.alert = Green /\ s.alert < o.alert
                /\ Len(s.sources) > Len(o.sources) THEN "green"
        ELSE IF s.intensity # 0 /\ o.intensity = 0 THEN "detailed"
        ELSE "None"

\* Notice.supersedes(other) evaluated at time t; the results False and None
\* of the code are the strings "False" and "None"
Supersedes(s, o, t) ==
  IF Early(s, t) /\ ~s.official THEN "False"
  ELSE IF ~(s.confidence >= o.confidence) /\ ~(s.status > o.status) THEN "False"
  ELSE IF ~ReportEq(EventView(s), EventView(o)) THEN "False"
  ELSE
    LET confidence == Max(clip(s.confidence, CU \div 100, CU),
                          clip(o.confidence, CU \div 100, CU))
    IN  IF s.status > StIncomplete /\ s.tsunami /\ ~o.tsunami THEN "tsunami"
        ELSE IF s.official /\ ~o.official THEN "official"
        ELSE IF s.alert > Green /\ s.alert > o.alert THEN AlertName(s.alert)
        ELSE IF s.mag - o.mag > clip((25 * CU) \div confidence, 15, 300) THEN "stronger"
        ELSE IF s.intensity # 0 /\ o.intensity # 0 /\ s.intensity > o.intensity
          THEN "worse"
        ELSE IF s.timestamp - o.timestamp < throttling THEN "False"
        ELSE IF /\ Early(o, t) /\ s.witnesses # <<>> /\ Warners(s) # <<>>
                /\ Len(s.witnesses) - Len(Warners(s)) = 10 THEN "felt"
        ELSE IF Early(o, t) /\ s.confidence > CU \div 2 THEN "detailed"
        ELSE IF o.mag - s.mag > clip((40 * CU) \div confidence, 30, 300) THEN "weaker"
        ELSE IF /\ s.crad < o.crad
                /\ CoordsSub(s.pos, s.crad, o.pos, o.crad)
                     > clip(s.radius + o.radius, 20, 300) THEN "epicenter"
        ELSE IF /\ s.alert = Green /\ s.alert < o.alert
                /\ Len(s.sources) > Len(o.sources) THEN "green"
        ELSE IF s.intensity # 0 /\ o.intensity = 0 THEN "detailed"
        ELSE "None"

NoReason(reason) == reason \in {"False", "None"}

----------------------------------------------------------------------------
(* Domain: significance, relevance and remember.  A domain is named by its *)
(* key in Domains, a notice by its index in notices.                       *)

domainHistoryLen == 64

\* the text Domain.significance searches for the region of the domain: the
\* tsunami bulletin when the notice has one (it names no region here),
\* else the name of the region
Bulletin == "tsunami bulletin"
Searched(n) == IF n.tsunami THEN Bulletin ELSE RegionOf(n.pos)

\* the inhabitants where.py lists around a position: one city, away from
\* every event of the catalogue
Inhabitants(pos) == IF pos >= 400 /\ pos < 500 THEN 150000 ELSE 0

\* the total of Notice.populations at time t: localities() yields nothing
\* for an early notice, a status below 'incomplete', a score under 0.05 or
\* a slowdown factor above 3
Populations(n, t) ==
  IF Early(n, t) \/ n.status < StIncomplete \/ n.score < CU \div 20
     \/ slowdown > 3000
    THEN 0
    ELSE Inhabitants(n.pos)

\* Notice.significance at time t; Notice.rate returns None on its first
\* statement, so the rule of the rate never holds
NoticeSignificance(n, t) ==
  IF n.victims # 0 THEN "victims"
  ELSE IF n.tsunami THEN "tsunami"
  ELSE IF n.mag > 700 THEN "magnitude"
  ELSE IF n.mag > 650 /\ n.depth < 300 THEN "magnitude"
  ELSE IF n.mag > 600 /\ n.alert > Green THEN "magnitude"
  ELSE IF n.mag > 500 /\ n.alert > Yellow THEN AlertName(n.alert)
  ELSE IF n.mag > 600 /\ n.depth < 200 /\ Populations(n, t) > 100
    THEN "magnitude"
  ELSE IF n.mag > 500 /\ n.depth < 150 /\ Populations(n, t) > 100000
    THEN "population"
  ELSE "None"

\* a variant of the reason where the first filter set names it
ReasonOfFirst(d, n) ==
  IF d.categories # {} THEN "emergency"
  ELSE IF d.score # 0 THEN "confidence"
  ELSE IF d.mag # 0 /\ Category(n) = "earthquake" THEN "magnitude"
  ELSE IF d.alert # 0 THEN "alert"
  ELSE IF d.reports # 0 THEN "felt"
  ELSE IF d.region # "" THEN "region"
  ELSE IF d.box # <<>> THEN "epicenter"
  ELSE IF d.target # -1 THEN "felt"
  ELSE IF d.warning THEN "warning"
  ELSE IF d.rate # 0 THEN "frequency"
  ELSE "population"

\* the reason Domain.significance returns once every filter has passed: each
\* filter that is set assigns its own, so the last one set names it
Reason(d, n) ==
  IF d.people # 0 THEN "population"
  ELSE IF d.rate # 0 THEN "frequency"
  ELSE IF d.warning THEN "warning"
  ELSE IF d.target # -1 THEN "felt"
  ELSE IF d.box # <<>> THEN "epicenter"
  ELSE IF d.region # "" THEN "region"
  ELSE IF d.reports # 0 THEN "felt"
  ELSE IF d.alert # 0 THEN "alert"
  ELSE IF d.mag # 0 /\ Category(n) = "earthquake" THEN "magnitude"
  ELSE IF d.score # 0 THEN "confidence"
  ELSE "emergency"

\* Domain.significance(notice) at time t: "False" when a filter rejects the
\* notice, else the reason.  With a threshold set, line 2357 reads
\* self.early, an attribute no Domain has: "AttributeError"
Significance(d, n, t) ==
  IF d.empty THEN "False"
  ELSE IF d.categories # {} /\ Category(n) \notin d.categories THEN "False"
  ELSE IF d.threshold # 0 THEN "AttributeError"
  ELSE IF d.score # 0 /\ (n.score < d.score \/ n.confidence < d.score)
    THEN "False"
  ELSE IF d.mag # 0 /\ Category(n) = "earthquake" /\ n.mag < d.mag THEN "False"
  ELSE IF d.alert # 0 /\ d.alert > n.alert THEN "False"
  ELSE IF d.reports # 0 /\ d.reports > Len(n.witnesses) THEN "False"
  ELSE IF d.region # "" /\ d.region # Searched(n) THEN "False"
  ELSE IF d.box # <<>> /\ ~(d.box[1] < n.pos /\ n.pos < d.box[2]) THEN "False"
  ELSE IF d.target # -1 /\ Abs(n.pos - d.target) > 1000 THEN "False"
  ELSE IF /\ d.target # -1
          /\ CoordsSub(n.pos, n.crad, d.target, d.tradius)
               > (IF d.tradius # 0 THEN d.tradius ELSE n.radius) THEN "False"
  ELSE IF d.warning /\ ~Early(n, t) THEN "False"
  ELSE IF /\ d.rate # 0
          /\ NoticeSignificance(n, t) \notin {"magnitude", "population"}
    THEN "False"
  ELSE IF d.people # 0 /\ ~(Populations(n, t) > d.people) THEN "False"
  ELSE Reason(d, n)

\* the loop of Domain.relevance: the oldest notice of the history that
\* satisfies notice == other, 0 when there is none
FirstMatch(hist, id) ==
  LET hits == {k \in 1..Len(hist):
                 ReportEq(EventView(notices[id]), EventView(notices[hist[k]]))}
  IN  IF hits = {} THEN 0 ELSE hist[CHOOSE k \in hits: \A j \in hits: k <= j]

\* a variant of Domain.relevance that takes every domain to accept updates
RelevanceOfUpdates(d, id, t) ==
  LET other == FirstMatch(dhistory[d], id)
  IN  IF other # 0
        THEN Supersedes(notices[id], notices[other], t)
        ELSE IF Significance(Domains[d], notices[id], t) # "False"
               THEN "significance"
               ELSE "None"

\* Domain.relevance(notice) at time t
Relevance(d, id, t) ==
  LET other == FirstMatch(dhistory[d], id)
  IN  IF other # 0
        THEN IF \/ Domains[d].updates
                \/ (~notices[other].official /\ notices[id].official)
               THEN Supersedes(notices[id], notices[other], t)
               ELSE "None"
        ELSE IF Significance(Domains[d], notices[id], t) # "False"
               THEN "significance"
               ELSE "None"

\* notice.tag = other.tag, the assignment Domain.relevance makes on a match
Tagged(d, id, tgs) ==
  LET other == FirstMatch(dhistory[d], id)
  IN  IF other # 0 THEN [tgs EXCEPT ![id] = tgs[other]] ELSE tgs

\* a variant of Domain.remember that drops the equal notices and appends
\* nothing
Dropped(hist, id) ==
  SelectSeq(hist, LAMBDA h:
    ~ReportEq(EventView(notices[h]), EventView(notices[id])))

\* Domain.remember: every notice equal to this one leaves the history, then
\* this one is appended
Remember(hist, id) ==
  Bounded(Append(SelectSeq(hist, LAMBDA h:
                   ~ReportEq(EventView(notices[h]), EventView(notices[id]))),
                 id),
          domainHistoryLen)

\* the notice the domain remembered last, among those that are the event of
\* this notice (notice == other) and carry its tag; 0 when there is none
LastRemembered(d, id, tgs) ==
  LET hits == {i \in 1..Len(remembered[d]):
                 /\ remembered[d][i] # id
                 /\ tgs[remembered[d][i]] = tgs[id]
                 /\ ReportEq(EventView(notices[id]),
                             EventView(notices[remembered[d][i]]))}
  IN  IF hits = {} THEN 0
      ELSE remembered[d][CHOOSE i \in hits: \A j \in hits: j <= i]

\* the lines Notice.messages yields after "if not relevance: return", from
\* minimal, warning, tsunami, felt, details, arrival in this order.  warning
\* and arrival build where.Address(where.locate(...)) unguarded: when locate
\* returns None they raise before their first line, which ends the stream.
\* No event of the catalogue has impacted towns, so felt yields nothing
Lines(d, n, t) ==
  LET significance == Significance(d, n, t) # "False"
      early == Early(n, t)
      distance == CoordsSub(n.pos, n.crad, d.target, d.tradius)
      personal == d.target # -1 /\ early /\ significance
      minimal == IF personal /\ n.time + Travel(n.depth, distance) >= t
                   THEN 1 ELSE 0
      warning == IF d.target = -1 /\ early /\ significance THEN 1 ELSE 0
      tsunami == IF \/ ReportTsunami(n.children[1])
                    \/ ReportTsunami(n.best[1]) THEN 1 ELSE 0
      details == IF Category(n) = "earthquake"
                   THEN IF \/ (early /\ ~n.official)
                           \/ (n.confidence < CU \div 5 /\ ~n.official)
                           \/ (d.target # -1 /\ ~n.official)
                          THEN 0 ELSE 1
                   ELSE IF early \/ n.confidence < CU \div 10 THEN 0 ELSE 1
      arrival == IF personal THEN 3 ELSE 0
  IN  IF Located(n.pos)
        THEN minimal + warning + tsunami + details + arrival
        ELSE IF d.target = -1 /\ early /\ significance THEN minimal
        ELSE minimal + tsunami + details

----------------------------------------------------------------------------
(* Monitor: Worker.start.run for the Monitor's two threads and             *)
(* Monitor.process, one action per step a thread takes                     *)

\* os._exit has not been called
Running == \A th \in DOMAIN mon: mon[th].pc # "exit"

\* a variant of the test that lets every domain of a recipient through
BlockedNever(delivered, recipient, domain) == FALSE

\* delivered.get(recipient, domain) is not domain
Blocked(delivered, recipient, domain) ==
  delivered[recipient] \notin {"", domain}

\* the Notice built from a report joins Event.history and, unless its
\* construction raised, the queue the Monitor consumes
Delivered(built) ==
  /\ history' = built.history
  /\ IF built.raised = ""
       THEN /\ notices' = Append(notices, [id |-> Len(notices) + 1] @@ built.event)
            /\ tags' = Append(tags, RegionOf(built.event.pos))
            /\ output' = HeapPush(output,
                                  [id |-> Len(notices) + 1] @@ built.event, now)
       ELSE UNCHANGED <<notices, tags, output>>

\* a (notice, origin) pair arrives on the queue the Monitor consumes: the
\* Notice is constructed from a report, merging it into Event.history
DeliverUpTo(rid, most) ==
  /\ Running
  /\ rid \in feed
  /\ arrivals < most
  /\ Delivered(EventInit(MkReport(rid, arrivals + 1), history, now))
  /\ feed' = feed \ {rid}
  /\ arrivals' = arrivals + 1
  /\ UNCHANGED <<now, fvars, mon, dhistory, locks, slowdown, sent, streams,
                 remembered, xvars>>

Deliver(rid) == DeliverUpTo(rid, MaxPuts)

\* a variant of the update without the floor
LoweredUnfloored(factor) == (factor * 8) \div 10

\* max(1.0, slowdown.factor*0.8), in thousandths
Lowered(factor) == Max(1000, (factor * 8) \div 10)

\* a waiting thread dequeues a notice and runs Monitor.process up to the
\* lock; the threads are interchangeable, the first waiting one is woken.
\* The name DEBUG_ROOM is not defined in the module (DEBUGGING_ROOM is):
\* the two statements that evaluate it raise NameError, which
\* Worker.start.run catches, and the notice is discarded there
Take(th) ==
  /\ Running
  /\ mon[th].pc = "idle"
  /\ \A other \in 1..(th - 1): mon[other].pc # "idle"
  /\ output # <<>>
  /\ LET n == HeapTop(output)
         delay == now - n.timestamp
         factor == IF delay > 60 THEN slowdown
                   ELSE IF delay < 10 THEN Lowered(slowdown)
                   ELSE slowdown
         raised == delay > 60 \/ factor > 64000
         ignored == \/ raised
                    \/ n.score < 0
                    \/ Timely(n, now) = "None"
                    \/ (n.status <= StGuessed /\ RegionOf(n.pos) \in locks)
     IN  /\ output' = HeapRest(output, now)
         /\ slowdown' = factor
         /\ mon' = [mon EXCEPT ![th] =
                      IF ignored THEN Idle
                      ELSE [Idle EXCEPT !.pc = "lock", !.id = n.id,
                                        !.waited = RegionOf(n.pos) \in locks]]
  /\ UNCHANGED <<now, history, feed, arrivals, fvars, notices, tags,
                 dhistory, locks, sent, streams, remembered, xvars>>

\* thread th is at "with self.locks[notice.region]" for the region of
\* notice id
Waits(th, id) ==
  /\ mon[th].pc = "lock"
  /\ RegionOf(notices[mon[th].id].pos) = RegionOf(notices[id].pos)

\* the thread enters "with self.locks[notice.region]" and builds targets
\* from self.recipients
AcquireOf(th, recipients) ==
  /\ Running
  /\ mon[th].pc = "lock"
  /\ RegionOf(notices[mon[th].id].pos) \notin locks
  /\ LET targets == [i \in 1..Len(recipients) |->
                       [recipient |-> recipients[i].recipient,
                        domain |-> recipients[i].domain,
                        left |-> -1, reason |-> "", other |-> 0,
                        last |-> 0]]
     IN  IF targets = <<>>
           THEN /\ mon' = [mon EXCEPT ![th] = Idle]
                /\ UNCHANGED locks
           ELSE /\ mon' = [other \in DOMAIN mon |->
                             IF other = th
                               THEN [mon[th] EXCEPT !.pc = "loop",
                                       !.targets = targets,
                                       !.snapshot = targets, !.cursor = 1]
                             ELSE IF Waits(other, mon[th].id)
                               THEN [mon[other] EXCEPT !.waited = TRUE]
                             ELSE mon[other]]
                /\ locks' = locks \cup {RegionOf(notices[mon[th].id].pos)}
  /\ UNCHANGED <<now, output, history, feed, arrivals, fvars, notices, tags,
                 dhistory, slowdown, sent, streams, remembered, xvars>>

Acquire(th) == AcquireOf(th, MonitorRecipients)

\* Domain.confirm(other, notice) for the notice the loop of Domain.relevance
\* finds: 1 when it calls domain.threshold.update, 0 when it does not
Confirm(d, id) ==
  LET other == FirstMatch(dhistory[d], id)
  IN  IF /\ other # 0
         /\ notices[id].status >= StIncomplete
         /\ StIncomplete > notices[other].status
         /\ Len(Warners(notices[other])) > 2
         /\ Domains[d].threshold # 0
        THEN 1 ELSE 0

\* the calls of domain.relevance(notice) that go with one line: the one of
\* Notice.messages when the line is the first of its stream, the one of the
\* elif at 2581 when the notice is not early, the one of the log line
Relevances(fresh, early) ==
  (IF fresh THEN 1 ELSE 0) + (IF early THEN 0 ELSE 1) + 1

\* a variant of the removal that keeps the target in the list
Kept(targets, tg) == targets

\* targets.remove((recipient, domain, messages))
Removed(targets, tg) ==
  SelectSeq(targets, LAMBDA x:
    ~(x.recipient = tg.recipient /\ x.domain = tg.domain))

\* the body of the try statement and its except and else branches, for the
\* target tg of thread th in state m: left is the number of lines the stream
\* of the target still holds (0: next() raises), tags1 the tags after
\* Domain.relevance
VisitNext(th, m, tg, fresh, reason, other, tags1, last, left) ==
  /\ streams' = IF fresh
                  THEN streams \cup {[id |-> m.id, recipient |-> tg.recipient,
                                      domain |-> tg.domain, lines |-> left]}
                  ELSE streams
  /\ IF left = 0
       THEN \* the except branch: RuntimeError or StopIteration
         /\ IF m.delivered[tg.recipient] # ""
              THEN /\ dhistory' = [dhistory EXCEPT
                                     ![tg.domain] = Remember(@, m.id)]
                   /\ remembered' = [remembered EXCEPT
                                       ![tg.domain] = Append(@, m.id)]
              ELSE UNCHANGED <<dhistory, remembered>>
         /\ tags' = tags1
         /\ IF m.cursor = Len(m.snapshot)
              THEN /\ mon' = [mon EXCEPT ![th] = Idle]
                   /\ locks' = locks \ {RegionOf(notices[m.id].pos)}
              ELSE /\ mon' = [mon EXCEPT ![th] =
                         [@ EXCEPT !.targets = Removed(@, tg),
                                   !.cursor = @ + 1]]
                   /\ UNCHANGED locks
         /\ UNCHANGED sent
       ELSE \* a line was produced: send it, claim the recipient, break
         LET targets1 == [i \in 1..Len(m.targets) |->
                            IF /\ m.targets[i].recipient = tg.recipient
                               /\ m.targets[i].domain = tg.domain
                              THEN [tg EXCEPT !.left = left - 1,
                                              !.reason = reason,
                                              !.other = other, !.last = last]
                              ELSE m.targets[i]]
         IN  /\ sent' = sent \cup
                          {[id |-> m.id, recipient |-> tg.recipient,
                            domain |-> tg.domain,
                            reason |-> reason, other |-> other,
                            last |-> last, line |-> left - 1,
                            updates |-> Confirm(tg.domain, m.id)
                              * Relevances(fresh, Early(notices[m.id], now))]}
             /\ tags' = Tagged(tg.domain, m.id, tags1)
             /\ mon' = [mon EXCEPT ![th] =
                   [@ EXCEPT !.targets = targets1,
                             !.snapshot = targets1,
                             !.cursor = 1,
                             !.delivered = [@ EXCEPT ![tg.recipient] =
                                              IF @ = "" THEN tg.domain ELSE @]]]
             /\ UNCHANGED <<dhistory, remembered, locks>>

\* a fresh stream runs Notice.messages from "if not relevance: return" on
VisitMessages(th, m, tg, blocked, fresh, reason, other, tags1) ==
  VisitNext(th, m, tg, fresh, reason, other, tags1,
            IF fresh THEN LastRemembered(tg.domain, m.id, tags1) ELSE tg.last,
            IF blocked THEN 0
            ELSE IF fresh
                   THEN (IF ~NoReason(reason)
                           THEN Lines(Domains[tg.domain], notices[m.id], now)
                           ELSE 0)
            ELSE tg.left)

\* a fresh stream runs Notice.messages up to "if not relevance: return"
VisitRelevance(th, m, tg, blocked, fresh, timely) ==
  VisitMessages(th, m, tg, blocked, fresh,
                IF fresh
                  THEN IF timely THEN Relevance(tg.domain, m.id, now) ELSE "None"
                  ELSE tg.reason,
                IF fresh
                  THEN IF timely THEN FirstMatch(dhistory[tg.domain], m.id) ELSE 0
                  ELSE tg.other,
                IF fresh /\ timely THEN Tagged(tg.domain, m.id, tags) ELSE tags)

\* the blocked test; a target whose generator has not started is fresh
VisitBlocked(th, m, tg, blocked) ==
  VisitRelevance(th, m, tg, blocked, ~blocked /\ tg.left = -1,
                 Timely(notices[m.id], now) # "None")

\* one turn of "for recipient, domain, messages in list(targets)"
Visit(th) ==
  /\ Running
  /\ mon[th].pc = "loop"
  /\ VisitBlocked(th, mon[th], mon[th].snapshot[mon[th].cursor],
                  Blocked(mon[th].delivered,
                          mon[th].snapshot[mon[th].cursor].recipient,
                          mon[th].snapshot[mon[th].cursor].domain))
  /\ UNCHANGED <<now, output, history, feed, arrivals, fvars, notices,
                 slowdown, xvars>>

InitMonitor == Start(MonitorFeeds) /\ NoReceivers /\ NoWorker
  /\ NoPollers /\ NoMeter /\ NoPacing /\ NoProbe /\ NoLearner /\ NoSink

NextMonitor ==
  \/ Tick
  \/ \E rid \in Rids: Deliver(rid)
  \/ \E th \in 1..MonitorThreads: Take(th)
  \/ \E th \in 1..MonitorThreads: Acquire(th)
  \/ \E th \in 1..MonitorThreads: Visit(th)

SpecMonitor == InitMonitor /\ [][NextMonitor]_vars

----------------------------------------------------------------------------
(* FeedManager.add and FeedManager.poll: the adapters and their supervisor *)

MaxPolls == 3

\* a resource is a URL, of which the scheme and the host matter, or the
\* Twitter account; None is the resource attribute of the Receiver class
None == [scheme |-> "", host |-> ""]

\* the Twitter() account setup() adds and the feeds of bot.config.quake_feeds
TwitterAccount == [scheme |-> "twitter", host |-> "account"]

QuakeFeeds ==
  { [scheme |-> "https", host |-> "usgs"],
    [scheme |-> "http", host |-> "emsc"],
    [scheme |-> "fdsn", host |-> "ingv"],
    [scheme |-> "wss", host |-> "p2pquake"] }

\* what Dispatcher.__call__ raises when no handler takes the arguments
Rejection == [type |-> "Rejection", resource |-> None, state |-> "dead"]

\* Dispatcher(Receiver)(resource, manager): the first subclass of Receiver,
\* by decreasing priority, whose accepts() takes the resource is constructed.
\* state is "running" when a thread of the instance is alive; a
\* TwitterReceiver returns from __init__ at once, with neither resource nor
\* threads, a WebSocketReceiver starts its worker in listen(), after connect
Construct(resource) ==
  IF resource.scheme = "fdsn"
    THEN [type |-> "FDSN", resource |-> resource, state |-> "running"]
  ELSE IF resource.scheme \in {"http", "https"}
    THEN [type |-> "HTTP", resource |-> resource, state |-> "running"]
  ELSE IF resource.scheme = "twitter"
    THEN [type |-> "Twitter", resource |-> None, state |-> "dead"]
  ELSE IF resource.scheme \in {"ws", "wss"}
    THEN [type |-> "WebSocket", resource |-> resource, state |-> "starting"]
  ELSE Rejection

\* Worker.running
IsRunning(receiver) == receiver.state = "running"

\* the manager after setup() and initialize() have added the resources; the
\* Twitter account is added unless the login raised
StartSupervisor ==
  /\ \E twitter \in SUBSET {TwitterAccount}:
       receivers = {Construct(resource): resource \in QuakeFeeds \cup twitter}
  /\ polls = 0

\* WebSocketReceiver.listen: connect() returned and start() made the thread
Listen(receiver) ==
  /\ receiver \in receivers
  /\ receiver.state = "starting"
  /\ receivers' = (receivers \ {receiver})
                    \cup {[receiver EXCEPT !.state = "running"]}
  /\ UNCHANGED <<polls, now, output, history, feed, arrivals, fvars, mvars,
                 wvars, rvars, lvars, pvars>>

\* the threads of an adapter have terminated
Die(receiver) ==
  /\ receiver \in receivers
  /\ receiver.state = "running"
  /\ receivers' = (receivers \ {receiver})
                    \cup {[receiver EXCEPT !.state = "dead"]}
  /\ UNCHANGED <<polls, now, output, history, feed, arrivals, fvars, mvars,
                 wvars, rvars, lvars, pvars>>

\* FeedManager.poll run by the poller's worker for one tick: the loop over
\* list(self.receivers), in the order of the set.  An exception raised by
\* self.add ends the generator: the adapters not yet visited are left
Poll ==
  /\ polls < MaxPolls
  /\ polls' = polls + 1
  /\ UNCHANGED <<now, output, history, feed, arrivals, fvars, mvars, wvars,
                 rvars, lvars, pvars>>
  /\ LET dead == {receiver \in receivers: ~IsRunning(receiver)}
         failing == {receiver \in dead:
                       Construct(receiver.resource) = Rejection}
     IN  IF failing = {}
           THEN receivers' = (receivers \ dead)
                  \cup {Construct(receiver.resource): receiver \in dead}
           ELSE \E last \in failing: \E visited \in SUBSET (dead \ failing):
                  receivers' = (receivers \ (visited \cup {last}))
                    \cup {Construct(receiver.resource): receiver \in visited}

InitSupervisor == Start({{}}) /\ StartSupervisor /\ NoWorker
  /\ NoPollers /\ NoMeter /\ NoPacing /\ NoProbe /\ NoLearner /\ NoSink

NextSupervisor ==
  \/ \E receiver \in receivers: Listen(receiver)
  \/ \E receiver \in receivers: Die(receiver)
  \/ Poll

SpecSupervisor == InitSupervisor /\ [][NextSupervisor]_vars

----------------------------------------------------------------------------
(* Worker and WorkQueue: a worker with its own input and output queues,    *)
(* such as the one WebSocketReceiver.listen starts.  An entry of the input *)
(* queue is an (item, origin) tuple, of which rank orders the items as     *)
(* their __lt__ does and is also the number of results process() gives for *)
(* the item, or the StopIteration sentinel.                                *)

\* Worker.start(size=...): 2 stands for the 512 of the code
size == 2
MaxItems == 3

\* the queue holds maxsize entries (Queue.put: _qsize() >= maxsize)
FullNever(queue) == FALSE

Full(queue) == Len(queue) >= size

\* a variant of the comparison in which the sentinel sorts before the tuples
SentinelFirst(x, y) ==
  IF y.stop THEN FALSE ELSE IF x.stop THEN TRUE ELSE x.rank < y.rank

\* x < y for two entries of the heap: tuples compare by their items; a tuple
\* and the StopIteration class are of different types, which Python 2
\* orders by type name, 'tuple' before 'type'
EntryLess(x, y) ==
  IF x.stop THEN FALSE ELSE IF y.stop THEN TRUE ELSE x.rank < y.rank

\* Worker.start(threads=...): one thread by default, two for the Monitor and
\* the TwitterReceiver
StartWorker ==
  /\ winput = <<>>
  /\ woutput = <<>>
  /\ \E threads \in 1..2:
       wthreads = [th \in 1..threads |->
                     [pc |-> "idle", entry |-> 0, left |-> 0, full |-> FALSE]]
  /\ wdone = {}

\* the entries put so far, each numbered by its put.  wdone holds the
\* entries the threads are through with: "exit" for a sentinel, "full" for
\* an item whose results met a full output queue, "resumed" for an item
\* processed by a thread that had met a full queue before, else "done";
\* the thread keeps in full whether it has met a full output queue
Puts == Len(winput) + Cardinality(wdone)
          + Cardinality({th \in DOMAIN wthreads: wthreads[th].pc = "busy"})

\* the sentinels Worker.finish has put so far
Stops ==
  Cardinality({i \in 1..Len(winput): winput[i].stop})
    + Cardinality({x \in wdone: x.stop})

\* Worker.put: a blocking put of a tuple on the input queue
WorkerPut(rank) ==
  /\ UNCHANGED <<now, output, history, feed, arrivals, fvars, mvars, svars,
                 rvars, lvars, pvars>>
  /\ Puts - Stops < MaxItems
  /\ ~Full(winput)
  /\ winput' = Append(winput, [stop |-> FALSE, rank |-> rank,
                                seq |-> Puts + 1])
  /\ UNCHANGED <<woutput, wthreads, wdone>>

\* Worker.finish, one turn of "for thread in self.threads": a blocking put
\* of the sentinel
Finish ==
  /\ UNCHANGED <<now, output, history, feed, arrivals, fvars, mvars, svars,
                 rvars, lvars, pvars>>
  /\ Stops < Len(wthreads)
  /\ ~Full(winput)
  /\ winput' = Append(winput, [stop |-> TRUE, rank |-> 0, seq |-> Puts + 1])
  /\ UNCHANGED <<woutput, wthreads, wdone>>

\* WorkQueue.expect in "for item, origin in input": the thread dequeues a
\* least entry of the heap; the sentinel ends iter(self.expect,
\* StopIteration) and with it the thread.  The threads are interchangeable:
\* the first of those waiting is woken
Expect(th) ==
  /\ UNCHANGED <<now, output, history, feed, arrivals, fvars, mvars, svars,
                 rvars, lvars, pvars>>
  /\ wthreads[th].pc = "idle"
  /\ \A other \in 1..(th - 1): wthreads[other].pc # "idle"
  /\ \E i \in 1..Len(winput):
       /\ \A j \in 1..Len(winput): ~EntryLess(winput[j], winput[i])
       /\ winput' = RemoveAt(winput, i)
       /\ IF winput[i].stop
            THEN /\ wthreads' = [wthreads EXCEPT ![th] =
                                   [@ EXCEPT !.pc = "exit",
                                             !.entry = winput[i].seq]]
                 /\ wdone' = wdone \cup {[stop |-> TRUE, seq |-> winput[i].seq,
                                           outcome |-> "exit"]}
            ELSE /\ wthreads' = [wthreads EXCEPT ![th] =
                                   [@ EXCEPT !.pc = "busy",
                                             !.entry = winput[i].seq,
                                             !.left = winput[i].rank]]
                 /\ UNCHANGED wdone
  /\ UNCHANGED woutput

\* one turn of "for result in self.process(item, origin)": the result is
\* put on the output queue without blocking; Queue.Full ends the loop, as
\* does the end of the generator, and the thread returns to its input
Run(th) ==
  /\ UNCHANGED <<now, output, history, feed, arrivals, fvars, mvars, svars,
                 rvars, lvars, pvars>>
  /\ wthreads[th].pc = "busy"
  /\ IF wthreads[th].left = 0 \/ Full(woutput)
       THEN /\ wthreads' = [wthreads EXCEPT ![th] =
                              [pc |-> "idle", entry |-> 0, left |-> 0,
                               full |-> @.full \/ @.left # 0]]
            /\ wdone' = wdone \cup
                 {[stop |-> FALSE, seq |-> wthreads[th].entry,
                   outcome |-> IF wthreads[th].left # 0 THEN "full"
                               ELSE IF wthreads[th].full THEN "resumed"
                               ELSE "done"]}
            /\ UNCHANGED woutput
       ELSE /\ woutput' = Append(woutput, 1)
            /\ wthreads' = [wthreads EXCEPT ![th].left = @ - 1]
            /\ UNCHANGED wdone
  /\ UNCHANGED winput

\* Worker.get: the reader of the output queue takes a result
Get ==
  /\ UNCHANGED <<now, output, history, feed, arrivals, fvars, mvars, svars,
                 rvars, lvars, pvars>>
  /\ woutput # <<>>
  /\ woutput' = Tail(woutput)
  /\ UNCHANGED <<winput, wthreads, wdone>>

InitWorker == Start({{}}) /\ NoReceivers /\ StartWorker
  /\ NoPollers /\ NoMeter /\ NoPacing /\ NoProbe /\ NoLearner /\ NoSink

NextWorker ==
  \/ \E rank \in 1..2: WorkerPut(rank)
  \/ Finish
  \/ \E th \in DOMAIN wthreads: Expect(th)
  \/ \E th \in DOMAIN wthreads: Run(th)
  \/ Get

SpecWorker == InitWorker /\ [][NextWorker]_vars

----------------------------------------------------------------------------
(* PollingReceiver.process, Dispatcher(FeedParser) and FeedParser.lookup   *)

MaxCycles == 4

\* the polling adapters, by the class Dispatcher(Receiver) constructs
Pollers == <<"HTTP", "HTTP", "FDSN">>

\* an item of a payload: convert() returns a report (its id), returns None,
\* or raises a Rejection or another exception
Items ==
  [a |-> [id |-> 1, kind |-> "ok"], b |-> [id |-> 2, kind |-> "Rejection"],
   c |-> [id |-> 3, kind |-> "ok"], d |-> [id |-> 4, kind |-> "Exception"],
   e |-> [id |-> 5, kind |-> "ok"], f |-> [id |-> 6, kind |-> "None"]]

\* self.cache of a new PollingReceiver, and what fetch() may return: an
\* empty body, a body no parser can load, bodies of items
NoData == [name |-> "None", parsable |-> FALSE, items |-> <<>>]
Empty == [name |-> "", parsable |-> FALSE, items |-> <<>>]

Payloads ==
  { Empty,
    [name |-> "garbage", parsable |-> FALSE, items |-> <<>>],
    [name |-> "mixed", parsable |-> TRUE,
     items |-> <<Items.a, Items.b, Items.c>>],
    [name |-> "bad", parsable |-> TRUE,
     items |-> <<Items.d, Items.f, Items.e>>] }

\* the values int(self.limit/slowdown.factor) takes: 0 is no limit at all,
\* the other one is shorter than the bodies above
Limits == {0, 2}

\* cls.convert(item): the result (0 is None) or the exception it raises
Convert(item) ==
  IF item.kind \in {"Rejection", "Exception"}
    THEN [raised |-> item.kind, result |-> 0]
  ELSE IF item.kind = "None" THEN [raised |-> "", result |-> 0]
  ELSE [raised |-> "", result |-> item.id]

\* a variant of lookup that ends at the first item whose conversion raises
RECURSIVE LookupUntilRaised(_, _, _, _)
LookupUntilRaised(items, index, limit, cached) ==
  IF index > Len(items) \/ (limit # 0 /\ index - 1 >= limit)
    THEN [results |-> <<>>, cached |-> cached]
  ELSE IF Convert(items[index]).raised # ""
    THEN [results |-> <<>>, cached |-> cached]
  ELSE LET rest == LookupUntilRaised(items, index + 1, limit,
                                     cached \cup {items[index].id})
       IN  [results |-> <<Convert(items[index]).result>> \o rest.results,
            cached |-> rest.cached]

LookupStopping(items, limit, cached) == LookupUntilRaised(items, 1, limit, cached)

\* FeedParser.lookup from the item at index (1-based) on: what it yields
\* and FeedParser.cache afterwards.  An item is cached once its conversion
\* has returned; the cache (LFUCache of 512) is never full here
RECURSIVE LookupFrom(_, _, _, _)
LookupFrom(items, index, limit, cached) ==
  IF index > Len(items) \/ (limit # 0 /\ index - 1 >= limit)
    THEN [results |-> <<>>, cached |-> cached]
  ELSE LET item == items[index]
           hit == item.id \in cached
           conv == Convert(item)
           rest == LookupFrom(items, index + 1, limit,
                              IF ~hit /\ conv.raised = ""
                                THEN cached \cup {item.id} ELSE cached)
       IN  IF hit \/ conv.raised = ""
             THEN [results |-> <<conv.result>> \o rest.results,
                   cached |-> rest.cached]
             ELSE rest

Lookup(items, limit, cached) == LookupFrom(items, 1, limit, cached)

\* self.manager.parser(data, limit=...): FeedParser.__new__ of the first
\* parser whose load() takes the data, through the Dispatcher, which raises
\* a Rejection when none does
Parser(data, limit, cached) ==
  IF ~data.parsable
    THEN [raised |-> "Rejection", events |-> <<>>, cached |-> cached]
  ELSE LET found == Lookup(data.items, limit, cached)
       IN  [raised |-> "", cached |-> found.cached,
            events |-> SelectSeq(found.results, LAMBDA result: result # 0)]

\* a variant of the semaphore that always has a permit
AvailableAlways(permits) == TRUE

\* Semaphore.acquire does not block
Available(permits) == permits > 0

\* the adapters after FeedManager.add has constructed them: each worker
\* waits for the next tick of its ticker
StartPollers ==
  /\ pollers = [r \in DOMAIN Pollers |->
                  [type |-> Pollers[r], pc |-> "ticker", cache |-> NoData,
                   limit |-> 0, events |-> <<>>]]
  /\ semaphore = 2
  /\ lfu = {}
  /\ yielded = {}
  /\ ticks = 0

\* the process() generator of r returns: the with statement releases the
\* permit and the worker waits for the next tick
Return(r) ==
  /\ pollers' = [pollers EXCEPT ![r].pc = "ticker", ![r].limit = 0]
  /\ semaphore' = semaphore + 1

\* the ticker of r yields and its worker calls process(tick, origin)
Wake(r) ==
  /\ pollers[r].pc = "ticker"
  /\ ticks < MaxCycles
  /\ ticks' = ticks + 1
  /\ pollers' = [pollers EXCEPT ![r].pc = "enter"]
  /\ UNCHANGED <<semaphore, lfu, yielded>>
  /\ UNCHANGED <<now, output, history, feed, arrivals, fvars, mvars, svars,
                 wvars, lvars, pvars>>

\* "with self.semaphore:" is entered
Enter(r) ==
  /\ pollers[r].pc = "enter"
  /\ Available(semaphore)
  /\ semaphore' = semaphore - 1
  /\ pollers' = [pollers EXCEPT ![r].pc = "fetch"]
  /\ UNCHANGED <<lfu, yielded, ticks>>
  /\ UNCHANGED <<now, output, history, feed, arrivals, fvars, mvars, svars,
                 wvars, lvars, pvars>>

\* self.fetch() raises, or returns data that is compared with self.cache
Fetch(r) ==
  /\ pollers[r].pc = "fetch"
  /\ \/ Return(r)
     \/ \E data \in Payloads:
          IF data = pollers[r].cache \/ data = Empty
            THEN Return(r)
            ELSE /\ \E limit \in Limits:
                      pollers' = [pollers EXCEPT ![r].pc = "parse",
                                    ![r].cache = data, ![r].limit = limit]
                 /\ UNCHANGED semaphore
  /\ UNCHANGED <<lfu, yielded, ticks>>
  /\ UNCHANGED <<now, output, history, feed, arrivals, fvars, mvars, svars,
                 wvars, lvars, pvars>>

\* list(self.manager.parser(data, limit=...)) and the end of the with block
Parse(r) ==
  /\ pollers[r].pc = "parse"
  /\ LET parsed == Parser(pollers[r].cache, pollers[r].limit, lfu)
     IN  /\ lfu' = parsed.cached
         /\ IF parsed.raised # ""
              THEN Return(r)
              ELSE /\ pollers' = [pollers EXCEPT ![r].pc = "yield",
                                    ![r].events = parsed.events,
                                    ![r].limit = 0]
                   /\ semaphore' = semaphore + 1
  /\ UNCHANGED <<yielded, ticks>>
  /\ UNCHANGED <<now, output, history, feed, arrivals, fvars, mvars, svars,
                 wvars, lvars, pvars>>

\* "for event in events: yield event" as Worker.start.run consumes it: the
\* event is put on the manager's queue, unless the queue is full, which
\* ends the cycle
Yield(r) ==
  /\ pollers[r].pc = "yield"
  /\ IF pollers[r].events = <<>>
       THEN /\ pollers' = [pollers EXCEPT ![r].pc = "ticker"]
            /\ UNCHANGED yielded
       ELSE \/ /\ yielded' = yielded \cup
                    {[poller |-> r, event |-> Head(pollers[r].events)]}
               /\ pollers' = [pollers EXCEPT ![r].events = Tail(@)]
            \/ /\ pollers' = [pollers EXCEPT ![r].pc = "ticker",
                                             ![r].events = <<>>]
               /\ UNCHANGED yielded
  /\ UNCHANGED <<semaphore, lfu, ticks>>
  /\ UNCHANGED <<now, output, history, feed, arrivals, fvars, mvars, svars,
                 wvars, lvars, pvars>>

InitReceiver ==
  Start({{}}) /\ NoReceivers /\ NoWorker /\ StartPollers /\ NoMeter
  /\ NoPacing /\ NoProbe /\ NoLearner /\ NoSink

NextReceiver ==
  \/ \E r \in DOMAIN Pollers: Wake(r)
  \/ \E r \in DOMAIN Pollers: Enter(r)
  \/ \E r \in DOMAIN Pollers: Fetch(r)
  \/ \E r \in DOMAIN Pollers: Parse(r)
  \/ \E r \in DOMAIN Pollers: Yield(r)

SpecReceiver == InitReceiver /\ [][NextReceiver]_vars

----------------------------------------------------------------------------
(* The latency metering of Monitor.process and slowdown(alerts)            *)

MaxNotices == 3
MaxAlerts == 2

\* the factor above which Monitor.process restarts the bot
Overload == 64

\* the delays When.now().epoch - notice.timestamp of the notices, one for
\* each branch of the metering
Delays == {5, 30, 90}

\* the numbers of alerts bot.chill hands to slowdown(alerts): few, or as many
\* as put the factor above Overload
AlertCounts == (0..MaxAlerts) \cup {Overload}

\* the Monitor threads before their first notice: delay, result and above
\* describe the last call of Monitor.process (the delay of its notice, how
\* it ended, and whether slowdown.factor was above Overload when it ended)
StartMeter ==
  meter = [th \in 1..MonitorThreads |->
             [pc |-> "idle", seen |-> 0, taken |-> 0, delay |-> 0,
              result |-> "", above |-> FALSE]]

\* a variant of the branches of Monitor.process where a delay above 60 s
\* takes the branch of the short delays
BranchLowering(delay) ==
  IF delay > 60 \/ delay < 10 THEN "lower" ELSE "check"

\* the branch of lines 2530-2536 taken for a delay
Branch(delay) ==
  IF delay > 60 THEN "delayed" ELSE IF delay < 10 THEN "lower" ELSE "check"

\* thread th starts Monitor.process for a notice of this delay.  Above 60 s
\* the statement before "slowdown.factor *= ..." raises NameError
\* (DEBUG_ROOM), which ends the call; below 10 s the thread reads
\* slowdown.factor; otherwise it goes on to the test of line 2538
Measure(th, delay) ==
  /\ meter[th].pc = "idle"
  /\ meter[th].taken < MaxNotices
  /\ meter' = [meter EXCEPT ![th] =
                 IF Branch(delay) = "delayed"
                   THEN [@ EXCEPT !.taken = @ + 1, !.delay = delay,
                                  !.result = "NameError",
                                  !.above = slowdown > Overload * 1000]
                   ELSE [pc |-> Branch(delay),
                         seen |-> IF Branch(delay) = "lower" THEN slowdown
                                                             ELSE @.seen,
                         taken |-> @.taken + 1, delay |-> delay,
                         result |-> "", above |-> FALSE]]
  /\ UNCHANGED <<now, output, history, feed, arrivals, fvars, mvars, svars,
                 wvars, rvars, pvars>>

\* thread th stores max(1.0, factor*0.8) of the factor it has read
Lower(th) ==
  /\ meter[th].pc = "lower"
  /\ slowdown' = Lowered(meter[th].seen)
  /\ meter' = [meter EXCEPT ![th].pc = "check"]
  /\ UNCHANGED <<now, output, history, feed, arrivals, fvars, notices, tags,
                 mon, dhistory, locks, sent, streams, remembered, svars,
                 wvars, rvars, pvars>>

\* line 2538: thread th reads slowdown.factor; above Overload the statement
\* before os._exit raises NameError (DEBUG_ROOM), which ends the call with
\* the process still running; otherwise the call goes on and returns
Check(th) ==
  /\ meter[th].pc = "check"
  /\ meter' = [meter EXCEPT ![th] =
                 [@ EXCEPT !.pc = "idle",
                           !.result = IF slowdown > Overload * 1000
                                        THEN "NameError" ELSE "returned",
                           !.above = slowdown > Overload * 1000]]
  /\ UNCHANGED <<now, output, history, feed, arrivals, fvars, mvars, svars,
                 wvars, rvars, pvars>>

\* slowdown(alerts), the callback of bot.chill, with count alerts
Throttle(count) ==
  /\ slowdown' = (count + 1) * 1000
  /\ slowdown' # slowdown
  /\ UNCHANGED <<now, output, history, feed, arrivals, fvars, notices, tags,
                 mon, dhistory, locks, sent, streams, remembered, svars,
                 wvars, rvars, lvars, pvars>>

InitLatency ==
  Start({{}}) /\ NoReceivers /\ NoWorker /\ NoPollers /\ StartMeter
  /\ NoPacing /\ NoProbe /\ NoLearner /\ NoSink

NextLatency ==
  \/ \E th \in 1..MonitorThreads: \E delay \in Delays: Measure(th, delay)
  \/ \E th \in 1..MonitorThreads: Lower(th)
  \/ \E th \in 1..MonitorThreads: Check(th)
  \/ \E count \in AlertCounts: Throttle(count)

SpecLatency == InitLatency /\ [][NextLatency]_vars

----------------------------------------------------------------------------
(* The adaptive period of a PollingReceiver (throttle and process)         *)
(* period, stopwatch times and intervals are in milliseconds               *)

MaxThrottles == 3

\* the class attribute 'period' of the polling adapters, in seconds
ClassPeriod == [Polling |-> 300, HTTP |-> 100, FDSN |-> 90]

\* the class attribute 'limit'
ClassLimit == 12

\* random.uniform(period - period/10, period + period/10) with the integer
\* division of Python 2: the two ends of the range
FirstPeriods(type) ==
  {(ClassPeriod[type] - ClassPeriod[type] \div 10) * 1000,
   (ClassPeriod[type] + ClassPeriod[type] \div 10) * 1000}

\* what "with self.stopwatch" measures for a parse: quick, or slow (whole
\* seconds)
Partials == {1000, 200000}

\* min((event.update - event.time).seconds/3.0) over the parsed events that
\* were updated after their time; -1 when there is no such event
Intervals == {0 - 1, 20000, 1000000}

\* a variant of the weighting that takes the interval as it is
Unclipped(period, towards, weight, whole) ==
  (period * (whole - weight) + towards * weight) \div whole

\* self.period*(1-weight) + clip(towards, 50, 500)*weight, weight in tenths
\* or hundredths
Weighted(period, towards, weight, whole) ==
  (period * (whole - weight) + clip(towards, 50000, 500000) * weight)
    \div whole

\* a variant of throttle(towards=...) that takes the target as the period
ThrottleTo(period, towards) == Weighted(period, towards, 10, 10)

\* throttle(towards=...): weight 0.3
ThrottleTowards(period, towards) == Weighted(period, towards, 3, 10)

\* throttle(events): weight 0.7 when the shortest interval is below the
\* period, 0.05 otherwise; nothing without intervals
ThrottleEvents(period, interval) ==
  IF interval < 0 THEN period
  ELSE IF interval < period THEN Weighted(period, interval, 7, 10)
  ELSE Weighted(period, interval, 5, 100)

\* Stopwatch.__exit__; its partial is read only in the cycle that sets it
\* and is not kept in the state
Stopped(watch, partial) ==
  [elapsed |-> watch.elapsed + partial, count |-> watch.count + 1]

\* Stopwatch.average
Average(watch) ==
  IF watch.count # 0 THEN watch.elapsed \div watch.count ELSE watch.elapsed

\* the number of items of a fetched body: more than the limit ever allows
Sizes == {60}

\* "if limit and index >= limit: break" in FeedParser.lookup: how many of
\* the items of a body the loop looks up (converts, unless cached)
Looked(items, limit) == IF limit = 0 THEN items ELSE Min(items, limit)

\* int(self.limit/slowdown.factor), the factor in thousandths
LimitOf(limit, factor) == (limit * 1000) \div factor

\* HTTPReceiver.fetch returns [] when slowdown.factor > 1.5, which process()
\* takes for an empty body
Fetches == ~(pacing.type = "HTTP" /\ slowdown > 1500)

\* PollingReceiver.__init__ of an adapter of one of the classes that accept
\* a resource (PollingReceiver.accepts returns False); last is
\* the way the latest cycle ended, converted and emitted the items it looked
\* up and the reports it yielded
StartPacing ==
  \E type \in {"HTTP", "FDSN"}: \E first \in FirstPeriods(type):
    pacing = [type |-> type, period |-> first, limit |-> ClassLimit,
              stopwatch |-> [elapsed |-> 0, count |-> 0],
              cycles |-> 0, last |-> "", converted |-> 0,
              emitted |-> 0]

\* the variables a poll cycle leaves alone
Paced ==
  /\ pacing.cycles < MaxThrottles
  /\ UNCHANGED <<now, output, history, feed, arrivals, fvars, mvars, svars,
                 wvars, rvars, lvars, probe, learner, sink>>

\* a cycle whose fetch() raises: throttle(towards=300)
FetchFailed ==
  /\ Paced
  /\ pacing' = [pacing EXCEPT !.cycles = @ + 1,
                  !.last = "fetch failed",
                  !.converted = 0, !.emitted = 0,
                  !.period = ThrottleTowards(@, 300000)]

\* a cycle whose data is empty or the same as before:
\* throttle(towards=self.period*0.99)
Unchanged ==
  /\ Paced
  /\ pacing' = [pacing EXCEPT !.cycles = @ + 1,
                  !.last = "unchanged",
                  !.converted = 0, !.emitted = 0,
                  !.period = ThrottleTowards(@, (@ * 99) \div 100)]

\* a cycle whose parser raises: the stopwatch is stopped by the return out
\* of its with block, then throttle(towards=300)
ParseFailed(partial) ==
  /\ Paced
  /\ Fetches
  /\ pacing' = [pacing EXCEPT !.cycles = @ + 1,
                  !.last = "parse failed",
                  !.converted = 0, !.emitted = 0,
                  !.stopwatch = Stopped(@, partial),
                  !.period = ThrottleTowards(@, 300000)]

\* the end of process() once the events are yielded, given the stopwatch
\* and what it measured last:
\* throttle(events) when the average is under a quarter of the period, a
\* shorter limit otherwise; then throttle(towards=period + partial*factor)
Paces(watch, partial, interval, factor) ==
  LET quick == Average(watch) * 4 < pacing.period
      period == IF quick THEN ThrottleEvents(pacing.period, interval)
                         ELSE pacing.period
  IN  [pacing EXCEPT !.cycles = @ + 1, !.stopwatch = watch,
         !.last = "parsed",
         !.limit = IF quick THEN @ ELSE clip((@ * 8) \div 10, 3, 48),
         !.period = ThrottleTowards(period,
                                    period + (partial \div 1000) * factor)]

\* what list(self.manager.parser(data, limit=int(self.limit/slowdown.factor)))
\* looks up of a body of so many items, every item giving a report
Limited(record, items) ==
  [record EXCEPT
     !.converted = Looked(items, LimitOf(pacing.limit, slowdown)),
     !.emitted = Looked(items, LimitOf(pacing.limit, slowdown))]

\* a cycle that parses its data and yields every event
Parsed(partial, interval, items) ==
  /\ Paced
  /\ Fetches
  /\ pacing' = Limited(Paces(Stopped(pacing.stopwatch, partial), partial,
                             interval, slowdown), items)

\* a cycle whose consumer stops taking the events (the queue is full): the
\* generator is closed at the yield, the period is left as it is
Closed(partial, items) ==
  /\ Paced
  /\ Fetches
  /\ pacing' = [Limited(pacing, items) EXCEPT
                  !.cycles = @ + 1, !.last = "closed", !.emitted = 1,
                  !.stopwatch = Stopped(@, partial)]

InitPacing ==
  Start({{}}) /\ NoReceivers /\ NoWorker /\ NoPollers /\ NoMeter
  /\ StartPacing /\ NoProbe /\ NoLearner /\ NoSink

NextPacing ==
  \/ FetchFailed
  \/ Unchanged
  \/ \E partial \in Partials: ParseFailed(partial)
  \/ \E partial \in Partials: \E interval \in Intervals: \E items \in Sizes:
       Parsed(partial, interval, items)
  \/ \E partial \in Partials: \E items \in Sizes: Closed(partial, items)
  \/ \E count \in AlertCounts: Throttle(count)

SpecPacing == InitPacing /\ [][NextPacing]_vars

\* C23: the period of a polling receiver is within [50, 500] seconds in
\* every state, whatever the poll cycles it has gone through
C23_Within == pacing.period >= 50000 /\ pacing.period <= 500000

\* slow cycles have driven the period above 350 s, through intervals that
\* were clipped to 500 s
C23_Witness == pacing.cycles > 1 /\ pacing.period > 350000

\* C34 as stated: a cycle whose fetch raised yields no report and leaves the
\* period at 300 s, whatever it was
C34_CoolOff ==
  pacing.last = "fetch failed" =>
    pacing.emitted = 0 /\ pacing.period = 300000

\* C34: a cycle whose fetch raises yields no report and moves the period
\* three tenths of the way to 300 s: 0.7 of the period it had plus 0.3 of
\* 300 s
C34_TowardsCoolOff ==
  [][pacing'.cycles # pacing.cycles /\ pacing'.last = "fetch failed" =>
       /\ pacing'.emitted = 0
       /\ pacing'.period = (pacing.period * 7 + 300000 * 3) \div 10]_vars

\* a fetch has failed after other cycles, and the period is not 300 s
C34_Witness ==
  /\ pacing.last = "fetch failed"
  /\ pacing.cycles > 1
  /\ pacing.period # 300000

\* C33: a cycle that parses a body looks up no more of its items than the
\* limit it had, divided by the slowdown factor
C33_WithinLimit ==
  [][pacing'.cycles # pacing.cycles /\ pacing'.last \in {"parsed", "closed"} =>
       pacing'.converted * slowdown <= pacing.limit * 1000]_vars

----------------------------------------------------------------------------
(* Properties of the fusion pipeline (specification Spec)                  *)

\* the reports of the log that reached the replay check of process
Reached(i) == log[i].outcome \notin {"old", "early", "weak", "vague"}

\* the reports of the log for which Notice(report) returned an event
Fused(i) == log[i].outcome = "fused"

\* C1: every dequeued report that passes the gates and is fused into an
\* event has, once the worker's round for it is over, a Notice wrapping that
\* event on the FeedManager output queue
C1_Emitted ==
  \A i \in 1..Len(log):
    Fused(i) => \E k \in 1..Len(output): output[k] = log[i].notice

\* the first report of the log with the representation of report i that
\* reached the replay check
FirstReached(i) ==
  CHOOSE j \in 1..i:
    /\ Reached(j) /\ log[j].repr = log[i].repr
    /\ \A k \in 1..(j - 1): ~(Reached(k) /\ log[k].repr = log[i].repr)

C3_Children ==
  \A i \in 1..Len(history):
    /\ Len(history[i].children) >= 1
    /\ Len(history[i].children) <= maxreports
    /\ Len(history[i].best) >= 1

\* C4, as stated: after a merge, any two children of the resulting event
\* satisfy the fusion equality predicate
C4_Pairwise ==
  \A i \in 1..Len(log):
    (Fused(i) /\ log[i].absorbed # <<>>) =>
      \A x \in 1..Len(log[i].notice.children):
        \A y \in 1..Len(log[i].notice.children):
          ReportEq(ReportView(log[i].notice.children[x]),
                   ReportView(log[i].notice.children[y]))

\* C4, amended: a report merged into an existing event satisfies the fusion
\* equality predicate with that event's fused attributes or with at least
\* one of its children
C4_Merged ==
  \A i \in 1..Len(log):
    log[i].absorbed # <<>> =>
      \/ ReportEq(ReportView(log[i].report), EventView(log[i].absorbed[1]))
      \/ \E k \in 1..Len(log[i].absorbed[1].children):
           ReportEq(ReportView(log[i].absorbed[1].children[k]),
                    ReportView(log[i].report))

\* a merge whose report is not equal to every child of the absorbed event
C4_Witness ==
  \E i \in 1..Len(log):
    /\ Fused(i) /\ log[i].absorbed # <<>>
    /\ \E k \in 1..Len(log[i].absorbed[1].children):
         ~ReportEq(ReportView(log[i].absorbed[1].children[k]),
                   ReportView(log[i].report))

\* C5, as stated: reports are dequeued in the order they were put
C5_ArrivalOrder ==
  \A i \in 1..Len(log): \A j \in 1..Len(log):
    i < j => log[i].seq < log[j].seq

\* C5, amended: the worker dequeues the root of a priority heap; a report put
\* while exactly one other waits becomes the root, and so is dequeued first,
\* exactly when it compares less than the waiting one at that moment
C5_Priority ==
  [][ /\ (Len(input) = 1 /\ Len(input') = 2) =>
           LET new == IF input'[1].seq = arrivals' THEN input'[1] ELSE input'[2]
           IN  input'[1].seq = arrivals' <=> ItemLess(new, input[1], now)
      /\ Len(log') > Len(log) => log'[Len(log')].seq = input[1].seq ]_vars

\* a report put later was dequeued before one put earlier
C5_Witness ==
  \E i \in 1..Len(log): \E j \in 1..Len(log):
    i < j /\ log[i].seq > log[j].seq

\* the pairs of fused reports of the log
FusedPairs ==
  {p \in (1..Len(log)) \X (1..Len(log)): Fused(p[1]) /\ Fused(p[2])}

\* C7, as stated: for two notices with distinct timestamps, if one supersedes
\* the other with a reason, the other supersedes the first with no reason
C7_AntiSymmetric ==
  \A p \in FusedPairs:
    LET a == log[p[1]].notice
        b == log[p[2]].notice
    IN  (a.timestamp # b.timestamp /\ ~NoReason(Supersedes(a, b, now)))
          => NoReason(Supersedes(b, a, now))

\* C7, amended: for two notices with distinct timestamps, if one supersedes
\* the other with a reason, the other does not supersede the first with that
\* same reason
C7_NoSameReason ==
  \A p \in FusedPairs:
    LET a == log[p[1]].notice
        b == log[p[2]].notice
    IN  (a.timestamp # b.timestamp /\ ~NoReason(Supersedes(a, b, now)))
          => Supersedes(b, a, now) # Supersedes(a, b, now)

\* two notices with distinct timestamps superseding each other, with
\* different reasons
C7_Witness ==
  \E p \in FusedPairs:
    LET a == log[p[1]].notice
        b == log[p[2]].notice
    IN  /\ a.timestamp # b.timestamp
        /\ ~NoReason(Supersedes(a, b, now))
        /\ ~NoReason(Supersedes(b, a, now))

\* the pairs (i, j) of the log where report i, of yellow alert, made an event
\* of its own and report j, of red alert and fusion-equal to report i, was
\* merged into that event
YellowThenRed ==
  {p \in FusedPairs:
     /\ p[1] < p[2]
     /\ log[p[1]].absorbed = <<>>
     /\ log[p[1]].report.alert = Yellow
     /\ log[p[2]].report.alert = Red
     /\ ReportEq(ReportView(log[p[2]].report), ReportView(log[p[1]].report))
     /\ log[p[2]].absorbed = <<log[p[1]].notice>>}

\* C9, as stated: the notice built for the red report supersedes the notice
\* built for the yellow one with reason 'red', whatever the time elapsed
C9_Red ==
  \A p \in YellowThenRed:
    Supersedes(log[p[2]].notice, log[p[1]].notice, now) = "red"

\* C9, amended: it does so provided the red report is one of the best
\* children of the fused event, the new notice is not early and unofficial,
\* the two notices satisfy the fusion predicate, and neither of the reasons
\* ranked before the alert (tsunami, official) applies
C9_RedWhenBest ==
  \A p \in YellowThenRed:
    LET s == log[p[2]].notice
        o == log[p[1]].notice
    IN  ( /\ \E k \in 1..Len(s.best): s.best[k] = log[p[2]].report
          /\ ~(Early(s, now) /\ ~s.official)
          /\ ReportEq(EventView(s), EventView(o))
          /\ ~(s.status > StIncomplete /\ s.tsunami /\ ~o.tsunami)
          /\ ~(s.official /\ ~o.official) )
        => Supersedes(s, o, now) = "red"

\* a red report merged less than 120 s after the yellow one, whose notice
\* supersedes with reason 'red'
C9_Witness ==
  \E p \in YellowThenRed:
    /\ log[p[2]].notice.timestamp - log[p[1]].notice.timestamp < throttling
    /\ log[p[2]].notice.timestamp > log[p[1]].notice.timestamp
    /\ Supersedes(log[p[2]].notice, log[p[1]].notice, now) = "red"

\* the pairs (i, j) of the log where report i has magnitude 5.2 and status
\* 'reported' and made an event of its own, and report j, fused one TickStep
\* later, has magnitude 5.5, status 'revised' and lies 1 to 2 km away
Revision ==
  {p \in FusedPairs:
     /\ p[1] < p[2]
     /\ log[p[1]].absorbed = <<>>
     /\ log[p[1]].report.mag = 520
     /\ log[p[1]].report.status = StPreliminary
     /\ log[p[2]].report.mag = 550
     /\ log[p[2]].report.status = StRevised
     /\ Abs(log[p[2]].report.pos - log[p[1]].report.pos) \in 1..2
     /\ log[p[2]].at = log[p[1]].at + TickStep}

\* what C10 states but for the magnitude: report j was merged into the event
\* of report i, the event has exactly 2 children and status 'revised', and the
\* notice for j supersedes the notice for i with reason 'stronger'
RevisionFused(p) ==
  /\ log[p[2]].absorbed = <<log[p[1]].notice>>
  /\ Len(log[p[2]].notice.children) = 2
  /\ log[p[2]].notice.status = StRevised
  /\ Supersedes(log[p[2]].notice, log[p[1]].notice, now) = "stronger"

\* C10, as stated: a single event with 2 children, status 'revised', a
\* confidence-weighted magnitude of about 5.35, superseding with 'stronger'
C10_Weighted ==
  \A p \in Revision:
    RevisionFused(p) /\ log[p[2]].notice.mag \in 530..540

\* C10, amended: a single event with 2 children, status 'revised', the
\* magnitude 5.5 of the revised report, which alone makes the best children,
\* superseding with 'stronger'
C10_Revised ==
  \A p \in Revision:
    RevisionFused(p) /\ log[p[2]].notice.mag = 550

\* the two reports of C10 were fused
C10_Witness ==
  \E p \in Revision: Len(log[p[2]].notice.children) = 2

----------------------------------------------------------------------------
(* Properties of the Monitor (specification SpecMonitor)                   *)

\* the position of a domain of a recipient in Monitor.recipients
Position(recipient, domain) ==
  CHOOSE i \in 1..Len(MonitorRecipients):
    /\ MonitorRecipients[i].recipient = recipient
    /\ MonitorRecipients[i].domain = domain

\* C6: for one notice, every line sent to a recipient comes from the stream
\* of one domain, and every domain of that recipient placed before it in
\* Monitor.recipients had its stream started and yielded no line
C6_OneDomain ==
  /\ \A x \in sent: \A y \in sent:
       x.id = y.id /\ x.recipient = y.recipient => x.domain = y.domain
  /\ \A x \in sent: \A i \in 1..Len(MonitorRecipients):
       /\ MonitorRecipients[i].recipient = x.recipient
       /\ i < Position(x.recipient, x.domain)
       => [id |-> x.id, recipient |-> x.recipient,
           domain |-> MonitorRecipients[i].domain, lines |-> 0] \in streams

\* two lines of one notice went to a recipient while another domain of that
\* recipient, which finds the notice significant, was turned away
C6_Witness ==
  \E x \in sent: \E y \in sent: \E i \in 1..Len(MonitorRecipients):
    /\ x.id = y.id /\ x.recipient = y.recipient /\ x.line # y.line
    /\ MonitorRecipients[i].recipient = x.recipient
    /\ MonitorRecipients[i].domain # x.domain
    /\ Significance(Domains[MonitorRecipients[i].domain], notices[x.id], now)
         # "False"
    /\ \E k \in 1..Len(remembered[MonitorRecipients[i].domain]):
         remembered[MonitorRecipients[i].domain][k] = x.id

\* the reasons of Notice.supersedes placed after the throttling test
PostThrottle == {"felt", "detailed", "weaker", "epicenter", "green"}

\* C8: a line sent for a reason placed after the throttling test belongs to
\* a notice whose timestamp is at least 120 s after the timestamp of the
\* notice that domain remembered last for the same event and tag
C8_Throttled ==
  \A x \in sent:
    x.reason \in PostThrottle
    => /\ x.last # 0
       /\ notices[x.id].timestamp - notices[x.last].timestamp >= throttling

\* a line was sent for a reason placed after the throttling test
C8_Witness ==
  \E x \in sent:
    /\ x.reason \in PostThrottle
    /\ x.last # 0
    /\ notices[x.last].timestamp < notices[x.id].timestamp

----------------------------------------------------------------------------
(* Properties of single reports and of the gates (specification Spec)      *)

\* the reports of the log that are the report of C11: magnitude 5.2, status
\* 'reported', an agency source, no crowdsourced text, an origin time 120 s
\* before the moment it is processed, and no event of the history to join
TwoMinutesOld ==
  {i \in 1..Len(log):
     /\ Fused(i) /\ log[i].absorbed = <<>>
     /\ log[i].report.mag = 520
     /\ log[i].report.status = StPreliminary
     /\ log[i].report.src # "" /\ ~log[i].report.text
     /\ log[i].at - log[i].report.time = 120}

\* what C11 states but for the timely classification: one Notice is built
\* for the report, with the report as its only child, no witnesses, category
\* 'earthquake' and confidence 0.7
OneNotice(i) ==
  /\ Cardinality({j \in 1..Len(log): log[j].seq = log[i].seq}) = 1
  /\ log[i].notice.children = <<log[i].report>>
  /\ log[i].notice.witnesses = <<>>
  /\ Category(log[i].notice) = "earthquake"
  /\ log[i].notice.confidence = (7 * CU) \div 10

\* C11, as stated: the report yields one notice of category 'earthquake',
\* timely classification 'breaking' and confidence 0.7
C11_Breaking ==
  \A i \in TwoMinutesOld:
    OneNotice(i) /\ Timely(log[i].notice, log[i].at) = "breaking"

\* C11, amended: the report yields one notice of category 'earthquake' and
\* confidence 0.7 whose timely classification is 'warning'; it is 'warning'
\* until the origin time is 180 s old and 'breaking' from then on
C11_Warning ==
  \A i \in TwoMinutesOld:
    /\ OneNotice(i)
    /\ Timely(log[i].notice, log[i].at) = "warning"
    /\ Timely(log[i].notice, log[i].at + 60) = "warning"
    /\ Timely(log[i].notice, log[i].at + 61) = "breaking"

\* the report of C11 was processed and fused
C11_Witness ==
  \E i \in TwoMinutesOld: log[i].rid = "a" /\ log[i].notice.mag = 520

\* the children of the events of Event.history
Children ==
  {c \in UNION {{history[i].children[k]: k \in 1..Len(history[i].children)}:
                  i \in 1..Len(history)}: TRUE}

\* C12, as stated: every report stored as a child of an event of the history
\* has an origin time that is neither in the future nor more than 48 h old
C12_Window ==
  \A c \in Children: c.time <= now /\ c.time >= now - obsolete

\* C12, amended: every child has an origin time that is not in the future
\* and a posted time that is not before the manager's start, a report whose
\* time is later than the moment it is processed raises in Event.__init__
\* and is not a child of any event; the age of the origin time is not bounded
C12_NotFuture ==
  /\ \A c \in Children: c.time <= now /\ c.update >= Started
  /\ \A i \in 1..Len(log):
       (Reached(i) /\ log[i].outcome # "replay"
                   /\ log[i].report.time > log[i].at)
       => /\ log[i].outcome = "future"
          /\ \A c \in Children: c.seq # log[i].seq

\* a report of the future was turned away by Event.__init__ and a report
\* whose origin time is more than 48 h old is a child of an event
C12_Witness ==
  /\ \E i \in 1..Len(log): log[i].outcome = "future"
  /\ \E c \in Children: c.time < now - obsolete

\* the report is one that C13 names: posted more than 12 h ago or before the
\* manager's start, of magnitude below 2.5, or of coords.radius above 1000 km
Unfit(report, t) ==
  \/ report.update < t - maxage
  \/ report.update < Started
  \/ report.mag < threshold
  \/ report.crad > precision

\* C13: when the worker dequeues such a report, FeedManager.process returns
\* with no effect: no event or notice is made, and Event.history, the manager
\* history, the slider with its two caches, the seen set and the output queue
\* are unchanged
C13_Dropped ==
  [][ (Len(log') > Len(log) /\ Unfit(input[1], now))
      => /\ log'[Len(log')].outcome \in {"old", "early", "weak", "vague"}
         /\ UNCHANGED <<history, mhistory, slider, recent, trend, dejavu,
                        output>> ]_vars

\* reports were dropped by the radius gate and by another gate, the first
\* while Event.history held an event and the seen set an entry
C13_Witness ==
  /\ \E i \in 1..Len(log): \E j \in 1..Len(log):
       /\ i < j /\ Fused(i) /\ log[j].outcome = "vague"
       /\ log[j].repr \notin DOMAIN dejavu
  /\ history # <<>>

----------------------------------------------------------------------------
(* Properties of the supervisor (specification SpecSupervisor)             *)

\* the resources of the adapters of the manager
Covered(set) == {receiver.resource: receiver \in set}

\* C14: at a supervisor tick every adapter that is not running is replaced
\* by a running adapter of the same resource, and the set of resources the
\* manager covers is the same after the tick as before it
C14_Restarted ==
  [][ polls' # polls =>
        /\ \A receiver \in receivers:
             ~IsRunning(receiver) =>
               \E new \in receivers':
                 new.resource = receiver.resource /\ IsRunning(new)
        /\ Covered(receivers') = Covered(receivers) ]_vars

----------------------------------------------------------------------------
(* Properties of Worker and WorkQueue (specification SpecWorker)           *)

\* the threads that have left Worker.start.run
Exited == {th \in DOMAIN wthreads: wthreads[th].pc = "exit"}

\* the numbers of the entries the threads are through with
Through == {x.seq: x \in wdone}

C17_Bounded ==
  [][ /\ Len(winput') <= size
      /\ Len(woutput') <= size
      /\ \A th \in DOMAIN wthreads:
           ( /\ wthreads[th].pc = "busy" /\ wthreads[th].left > 0
             /\ Len(woutput) >= size
             /\ wthreads'[th] # wthreads[th] )
           => /\ woutput' = woutput
              /\ wthreads'[th].pc = "idle"
              /\ [stop |-> FALSE, seq |-> wthreads[th].entry,
                  outcome |-> "full"] \in wdone' ]_vars

\* a thread whose result met a full output queue has processed a later item
\* to its end, while the output queue is full
C17_Witness ==
  /\ \E x \in wdone: x.outcome = "resumed"
  /\ \E x \in wdone: x.outcome = "full"
  /\ Len(woutput) = size

----------------------------------------------------------------------------
(* Properties of the polling adapters and of the parsers                   *)

\* the worker of adapter r is inside list(self.manager.parser(...)) and
\* leaves it in this step
Parsing(r) == pollers[r].pc = "parse" /\ pollers'[r].pc # "parse"

\* the item at index i of the body r has fetched is within the limit
Within(r, i) == pollers[r].limit = 0 \/ i <= pollers[r].limit

\* C16: when an adapter parses a body that some parser can load, every item
\* within the limit whose conversion returns a report is among the events
\* the adapter goes on to yield, whatever the conversions of the other
\* items of the body raised, and the worker is left in its loop, about to
\* yield them and to take the next tick
C16_Skipped ==
  [][\A r \in DOMAIN Pollers:
       Parsing(r) /\ pollers[r].cache.parsable =>
         /\ pollers'[r].pc = "yield"
         /\ \A i \in DOMAIN pollers[r].cache.items:
              Within(r, i) /\ pollers[r].cache.items[i].kind = "ok" =>
                \E j \in DOMAIN pollers'[r].events:
                  pollers'[r].events[j] = pollers[r].cache.items[i].id]_vars

\* one adapter has put on the manager's queue the report that follows the
\* rejected item of one body and, in another cycle, the report that follows
\* the item of another body whose conversion failed
C16_Witness ==
  \E r \in DOMAIN pollers:
    /\ [poller |-> r, event |-> Items.c.id] \in yielded
    /\ [poller |-> r, event |-> Items.e.id] \in yielded

\* the adapters inside "with self.semaphore:"
Inside == {r \in DOMAIN pollers: pollers[r].pc \in {"fetch", "parse"}}

\* C18: at most two polling adapters are between the fetch and the end of
\* the parse, and the permits left are those no adapter inside holds: every
\* way out of the section has given its permit back
C18_TwoInside ==
  /\ Cardinality(Inside) <= 2
  /\ semaphore = 2 - Cardinality(Inside)

\* two adapters are inside and a third one, whose previous cycle ended with
\* a body no parser could load, waits for a permit
C18_Witness ==
  \E r \in DOMAIN pollers:
    /\ pollers[r].pc = "enter"
    /\ ~pollers[r].cache.parsable /\ pollers[r].cache # NoData
    /\ Cardinality(Inside) = 2
    /\ semaphore = 0

----------------------------------------------------------------------------
(* Properties of the region locks of the Monitor                           *)

\* the notice thread th is processing has a status of guessed or below
Guessed(th) == mon[th].id # 0 /\ notices[mon[th].id].status <= StGuessed

\* C19: a thread that holds the lock of a region for a notice of status
\* guessed or below, having waited for that lock at the with statement,
\* has sent nothing for the notice
C19_NeverWaited ==
  \A th \in DOMAIN mon:
    mon[th].pc = "loop" /\ Guessed(th) /\ mon[th].waited =>
      ~(\E x \in sent: x.id = mon[th].id)

----------------------------------------------------------------------------
(* Properties of the slowdown factor                                       *)

\* C20: slowdown.factor is at least 1.0 in every state
C20_AtLeastOne == slowdown >= 1000

\* a thread has read a factor between 1.0 and 1.25, whose lowering the
\* floor cuts, while the other thread has read another one, and the factor
\* is 1.0
C20_Witness ==
  \E th \in DOMAIN meter: \E other \in DOMAIN meter:
    /\ meter[th].seen > 1000 /\ Lowered(meter[th].seen) = 1000
    /\ meter[th].pc = "idle"
    /\ meter[other].pc = "lower" /\ meter[other].seen # meter[th].seen
    /\ slowdown = 1000


----------------------------------------------------------------------------
(* Properties of Event.best and Event.confidence (specification Spec)      *)

\* the confidences of a list of reports, in its order
Confidences(list) == [i \in 1..Len(list) |-> ReportConfidence(list[i])]

\* a list of reports is in descending order of confidence
Descending(list) ==
  \A i, j \in 1..Len(list): i < j => Confidences(list)[i] >= Confidences(list)[j]

\* a list of reports holds the same reports as another, each as many times
SameReports(list, other) ==
  /\ Len(list) = Len(other)
  /\ \A r \in {list[i]: i \in 1..Len(list)}:
       Cardinality({i \in 1..Len(list): list[i] = r})
         = Cardinality({i \in 1..Len(other): other[i] = r})

\* best, followed by the children left out of it, is the children in
\* descending order of confidence
PrefixOfSorted(e) ==
  LET sorted == SortByConfidence(e.children)
      left == SubSeq(sorted, Len(e.best) + 1, Len(sorted))
  IN  /\ Len(e.best) <= Len(e.children)
      /\ SameReports(e.best \o left, e.children)
      /\ Descending(e.best \o left)

\* the prefix reaches 1.0, or is all the children; no shorter one reaches it
ShortestReaching(e) ==
  /\ SumSeq(Confidences(e.best)) >= CU \/ Len(e.best) = Len(e.children)
  /\ \A k \in 0..(Len(e.best) - 1):
       SumSeq(Confidences(SubSeq(e.best, 1, k))) < CU

\* C29: for every event of the history, best is the shortest prefix of its
\* children in descending order of confidence whose confidences add up to
\* 1.0 or more (all of them when the total stays below 1.0), and the
\* confidence of the event is the sum of the confidences of best, which is
\* at most the number of best children
C29_ShortestPrefix ==
  \A i \in 1..Len(history):
    /\ PrefixOfSorted(history[i])
    /\ ShortestReaching(history[i])
    /\ history[i].confidence = SumSeq(Confidences(history[i].best))
    /\ history[i].confidence <= Len(history[i].best) * CU

\* an event of 2 or more children whose best children are some but not all
\* of them, and reach 1.0
C29_Witness ==
  \E i \in 1..Len(history):
    /\ Len(history[i].best) > 0
    /\ Len(history[i].best) < Len(history[i].children)
    /\ history[i].confidence >= CU

\* thread th takes a step of Monitor.process for a notice delayed by more
\* than 60 s
DelayedStep(th) ==
  /\ meter'[th] # meter[th]
  /\ meter'[th].delay > 60

C22_NotReturned ==
  \A th \in DOMAIN meter: meter[th].result = "returned" => ~meter[th].above

----------------------------------------------------------------------------
(* Calls of Notice.timely, Notice.supersedes and Domain.significance on    *)
(* notices and domains whose attributes are drawn from small sets           *)

\* a notice twenty minutes old of an agency's report, from which the calls
\* below vary one attribute or another
Plain ==
  [ok |-> TRUE, children |-> <<>>, time |-> Started - 1200,
   timestamp |-> Started, official |-> FALSE, best |-> <<>>,
   confidence |-> (3 * CU) \div 5, score |-> CU, pos |-> 100, crad |-> 10,
   depth |-> 10, mag |-> 500, intensity |-> 0, update |-> Started - 600,
   tsunami |-> FALSE, alert |-> 0, sources |-> <<"INGV">>,
   status |-> StPreliminary, keywords |-> {}, witnesses |-> <<>>,
   radius |-> 50, victims |-> 0]

\* no call has been made
StartProbe ==
  probe = [op |-> "", self |-> Plain, other |-> Plain, domain |-> <<>>,
           result |-> ""]

\* no call has been made yet
Unprobed == probe.op = ""

\* the variables a call leaves alone
Probed ==
  /\ Unprobed
  /\ UNCHANGED <<now, output, history, feed, arrivals, fvars, mvars, svars,
                 wvars, rvars, lvars, pacing, learner, sink>>

\* the ages When.now() - self.time of the notices classified, in seconds:
\* each bound of a rule of Notice.timely, one second more, and ages between
Ages ==
  {120, 180, 181, 400, 420, 421, 590, 600, 601, 890, 900, 901, 1190, 1200,
   1201, 3000, 3600, 3601, 7000, 7200, 7201, 10000, 10800, 10801, 14400,
   14401, 18000, 18001, 86000, 86400, 86401, 120000, 120001, 300000, 604800,
   604801}

\* the confidences around the floors 0.2 and 0.4 of the rules
Confidences25 ==
  {CU \div 10, CU \div 5 - 1, CU \div 5, (2 * CU) \div 5 - 1, (2 * CU) \div 5,
   CU}

\* the notices classified
Classified ==
  {[Plain EXCEPT !.time = Started - age, !.official = official,
                 !.sources = sources, !.keywords = keywords,
                 !.confidence = confidence, !.tsunami = tsunami,
                 !.alert = alert, !.victims = victims]:
     age \in Ages, official \in BOOLEAN, sources \in {<<>>, <<"INGV">>},
     keywords \in {{}, {"alert"}}, confidence \in Confidences25,
     tsunami \in BOOLEAN, alert \in {0, Green, Yellow, Orange, Red},
     victims \in {0, 1, 20, 200}}

\* notice.timely is read
Classify(e) ==
  /\ Probed
  /\ probe' = [probe EXCEPT !.op = "timely", !.self = e,
                            !.result = Timely(e, now)]

\* the ways in which the two notices of a comparison depart from a pair of
\* equal notices one minute old, issued one minute apart; at most
\* MaxFeatures of them at a time
MaxFeatures == 5

Features ==
  {"early", "unsure", "revised", "far", "incomplete", "tsunami", "wave",
   "official", "confirmed", "yellow", "red", "green", "amber", "strong",
   "weak", "shaken", "shook", "late", "alarm", "felt", "moved", "agencies"}

\* eleven witnesses, the first of which wrote before the waves arrived
Eleven ==
  [i \in 1..11 |->
     [update |-> IF i = 1 THEN Started - 59 ELSE Started - 10]]

\* the new notice (self) of a comparison
Newer(F) ==
  [Plain EXCEPT
     !.time = Started - 60,
     !.timestamp = Started,
     !.radius = IF "early" \in F THEN 300 ELSE IF "moved" \in F THEN 4 ELSE 50,
     !.confidence = IF "unsure" \in F THEN (2 * CU) \div 5 ELSE (3 * CU) \div 5,
     !.status = IF "revised" \in F THEN StRevised
                ELSE IF "incomplete" \in F THEN StIncomplete
                ELSE StPreliminary,
     !.pos = IF "far" \in F THEN 800 ELSE IF "moved" \in F THEN 115 ELSE 100,
     !.crad = IF "moved" \in F THEN 4 ELSE 10,
     !.tsunami = "tsunami" \in F,
     !.official = "official" \in F,
     !.alert = IF "red" \in F THEN Red ELSE IF "yellow" \in F THEN Yellow
               ELSE IF "green" \in F THEN Green ELSE 0,
     !.mag = IF "strong" \in F THEN 560 ELSE IF "weak" \in F THEN 430 ELSE 500,
     !.intensity = IF "shaken" \in F THEN 5 ELSE 0,
     !.witnesses = IF "felt" \in F THEN Eleven ELSE <<>>,
     !.sources = IF "agencies" \in F THEN <<"INGV", "GFZ">> ELSE <<"INGV">>]

\* the notice sent before (other)
Older(F) ==
  [Plain EXCEPT
     !.time = Started - 60,
     !.timestamp = IF "late" \in F THEN Started - 200 ELSE Started - 60,
     !.radius = IF "alarm" \in F THEN 300 ELSE IF "moved" \in F THEN 4 ELSE 50,
     !.tsunami = "wave" \in F,
     !.official = "confirmed" \in F,
     !.alert = IF "amber" \in F THEN Yellow ELSE 0,
     !.intensity = IF "shook" \in F THEN 4 ELSE 0]

\* notice.supersedes(other) is called
Compare(F) ==
  /\ Probed
  /\ probe' = [probe EXCEPT !.op = "supersedes", !.self = Newer(F),
                            !.other = Older(F),
                            !.result = Supersedes(Newer(F), Older(F), now)]

\* the ways in which the domain and the notice of a call of
\* Domain.significance depart from a domain with the default filters and a
\* notice that passes them; at most MaxFeatures of them at a time
DomainFeatures ==
  {"empty", "threshold", "strict", "major", "alerts", "coloured", "reported",
   "regional", "boxed", "targeted", "warned", "rated", "peopled"}

NoticeFeatures ==
  {"east", "city", "big", "red", "many", "prompt", "wave", "tweet",
   "doubtful", "sure"}

\* the domain: Domain.__init__ always sets a magnitude floor (3.0), a score
\* floor (0.09) and the categories (earthquake)
Configured(F) ==
  [Dom(IF "major" \in F THEN 550 ELSE 300,
       IF "strict" \in F THEN (7 * CU) \div 10 ELSE (9 * CU) \div 100,
       IF "alerts" \in F THEN {"alert"} ELSE {"earthquake"},
       IF "coloured" \in F THEN Yellow ELSE 0,
       IF "reported" \in F THEN 2 ELSE 0,
       "warned" \in F, TRUE,
       IF "targeted" \in F THEN 110 ELSE -1, 0, "empty" \in F)
   EXCEPT !.threshold = IF "threshold" \in F THEN CU \div 20 ELSE 0,
          !.region = IF "regional" \in F THEN "west" ELSE "",
          !.box = IF "boxed" \in F THEN <<50, 200>> ELSE <<>>,
          !.rate = IF "rated" \in F THEN 1 ELSE 0,
          !.people = IF "peopled" \in F THEN 100000 ELSE 0]

\* the notice
Notified(F) ==
  [Plain EXCEPT
     !.time = Started - 60,
     !.radius = IF "prompt" \in F THEN 300 ELSE 50,
     !.pos = IF "city" \in F THEN 450 ELSE IF "east" \in F THEN 300 ELSE 100,
     !.mag = IF "big" \in F THEN 680 ELSE 500,
     !.alert = IF "red" \in F THEN Red ELSE 0,
     !.witnesses = IF "many" \in F THEN Eleven ELSE <<>>,
     !.tsunami = "wave" \in F,
     !.sources = IF "tweet" \in F THEN <<>> ELSE <<"INGV">>,
     !.keywords = IF "tweet" \in F THEN {"alert"} ELSE {},
     !.confidence = IF "doubtful" \in F THEN CU \div 20
                    ELSE IF "sure" \in F THEN CU ELSE (3 * CU) \div 5]

\* domain.significance(notice) is called
Signify(F) ==
  /\ Probed
  /\ probe' = [probe EXCEPT !.op = "significance", !.self = Notified(F),
                            !.domain = Configured(F),
                            !.result = Significance(Configured(F),
                                                    Notified(F), now)]

InitNotice ==
  Start({{}}) /\ NoReceivers /\ NoWorker /\ NoPollers /\ NoMeter
  /\ NoPacing /\ StartProbe /\ NoLearner /\ NoSink

NextNotice ==
  \/ Unprobed /\ \E e \in Classified: Classify(e)
  \/ Unprobed /\ \E F \in SUBSET Features:
                   Cardinality(F) <= MaxFeatures /\ Compare(F)
  \/ Unprobed /\ \E F \in SUBSET (DomainFeatures \cup NoticeFeatures):
                   Cardinality(F) <= MaxFeatures /\ Signify(F)

SpecNotice == InitNotice /\ [][NextNotice]_vars

----------------------------------------------------------------------------
(* Properties of Notice.timely (specification SpecNotice)                  *)

\* the rules of the claim in their order: the label of each and whether it
\* fires for a notice at time t.  A window of m minutes holds the notices
\* whose time is not before now - m minutes
TimelyRules(e, t) ==
  << [label |-> "warning", fires |-> t - e.time <= 3 * 60],
     [label |-> "emergency",
      fires |-> t - e.time <= 7 * 60 /\ Category(e) # "earthquake"],
     [label |-> "breaking",
      fires |-> t - e.time <= 10 * 60 /\ 5 * e.confidence >= CU],
     [label |-> "preliminary",
      fires |-> t - e.time <= 15 * 60 /\ 5 * e.confidence >= 2 * CU],
     [label |-> "fresh",
      fires |-> t - e.time <= 20 * 60 /\ 5 * e.confidence >= CU],
     [label |-> "official", fires |-> t - e.time <= 60 * 60 /\ e.official],
     [label |-> "tsunami", fires |-> t - e.time <= 120 * 60 /\ e.tsunami],
     [label |-> "alert",
      fires |-> t - e.time <= 60 * (CASE e.alert = Green -> 120
                                      [] e.alert = Yellow -> 180
                                      [] e.alert = Orange -> 240
                                      [] e.alert = Red -> 300
                                      [] OTHER -> 60)],
     [label |-> "victims",
      fires |-> /\ e.victims > 0
                /\ t - e.time <= 60 * Max(1440, Min(10080, e.victims * 100))] >>

\* the label of the first rule of a list that fires
FirstFiring(rules) ==
  IF \E i \in 1..Len(rules): rules[i].fires
    THEN rules[CHOOSE i \in 1..Len(rules):
                 rules[i].fires /\ \A j \in 1..(i - 1): ~rules[j].fires].label
    ELSE "None"

----------------------------------------------------------------------------
(* Properties of Notice.supersedes (specification SpecNotice)              *)

\* the three guards of the claim
Guarded(s, o, t) ==
  /\ ~(Early(s, t) /\ ~s.official)
  /\ ~(s.confidence < o.confidence /\ ~(s.status > o.status))
  /\ ReportEq(EventView(s), EventView(o))

\* the criteria of the claim in their order: the reason of each and whether
\* it holds; those after 'worse' hold only once the throttling window (120 s
\* between the two timestamps) has elapsed
Criteria(s, o, t, tolerance, elapsed) ==
  << [label |-> "tsunami",
      fires |-> s.status > StIncomplete /\ s.tsunami /\ ~o.tsunami],
     [label |-> "official", fires |-> s.official /\ ~o.official],
     [label |-> AlertName(s.alert),
      fires |-> s.alert > Green /\ s.alert > o.alert],
     [label |-> "stronger",
      fires |-> s.mag - o.mag > Max(15, Min(300, (25 * CU) \div tolerance))],
     [label |-> "worse",
      fires |-> s.intensity # 0 /\ o.intensity # 0 /\ s.intensity > o.intensity],
     [label |-> "felt",
      fires |-> /\ elapsed /\ Early(o, t) /\ Len(Warners(s)) > 0
                /\ Len(s.witnesses) = Len(Warners(s)) + 10],
     [label |-> "detailed",
      fires |-> elapsed /\ Early(o, t) /\ 2 * s.confidence > CU],
     [label |-> "weaker",
      fires |-> /\ elapsed
                /\ o.mag - s.mag > Max(30, Min(300, (40 * CU) \div tolerance))],
     [label |-> "epicenter",
      fires |-> /\ elapsed /\ s.crad < o.crad
                /\ CoordsSub(s.pos, s.crad, o.pos, o.crad)
                     > Max(20, Min(300, s.radius + o.radius))],
     [label |-> "green",
      fires |-> /\ elapsed /\ s.alert = Green /\ o.alert > Green
                /\ Len(s.sources) > Len(o.sources)],
     [label |-> "detailed",
      fires |-> elapsed /\ s.intensity # 0 /\ o.intensity = 0] >>

\* the criteria for a pair of notices: the tolerances of the magnitude
\* criteria follow from the larger of the two confidences
CriteriaOf(s, o, t) ==
  Criteria(s, o, t,
           Max(Max(CU \div 100, Min(CU, s.confidence)),
               Max(CU \div 100, Min(CU, o.confidence))),
           s.timestamp - o.timestamp >= throttling)

\* C24: when the three guards pass, supersedes returns the reason of the
\* first criterion that holds in the order tsunami, official, alert upgrade,
\* stronger, worse and, once the throttling window has elapsed, felt,
\* detailed, weaker, epicenter, alert downgrade, new intensity; it returns
\* no reason when none holds or a guard fails
C24_FirstCriterion ==
  probe.op = "supersedes" =>
    IF Guarded(probe.self, probe.other, now)
      THEN LET reason == FirstFiring(CriteriaOf(probe.self, probe.other, now))
           IN  IF reason = "None" THEN NoReason(probe.result)
                                  ELSE probe.result = reason
      ELSE NoReason(probe.result)

\* the guards pass, the window has elapsed, the earlier notice was early and
\* the new one is weaker: 'detailed' is the answer, not 'weaker'
C24_Witness ==
  /\ probe.op = "supersedes"
  /\ Guarded(probe.self, probe.other, now)
  /\ Early(probe.other, now)
  /\ probe.self.timestamp - probe.other.timestamp >= throttling
  /\ probe.other.mag - probe.self.mag > 66
  /\ probe.result = "detailed"

----------------------------------------------------------------------------
(* Properties of Domain.significance (specification SpecNotice)            *)

\* the filters of the claim in their order: whether each is set on the
\* domain, whether the notice passes it, the reason it gives, and whether
\* evaluating it raises (the threshold gate reads self.early)
Filters(d, n, t) ==
  << [set |-> d.categories # {}, passes |-> Category(n) \in d.categories,
      reason |-> "emergency", raises |-> FALSE],
     [set |-> d.threshold # 0, passes |-> FALSE, reason |-> "warning",
      raises |-> TRUE],
     [set |-> d.score # 0,
      passes |-> n.score >= d.score /\ n.confidence >= d.score,
      reason |-> "confidence", raises |-> FALSE],
     [set |-> d.mag # 0 /\ Category(n) = "earthquake",
      passes |-> n.mag >= d.mag, reason |-> "magnitude", raises |-> FALSE],
     [set |-> d.alert # 0, passes |-> n.alert >= d.alert,
      reason |-> "alert", raises |-> FALSE],
     [set |-> d.reports # 0, passes |-> Len(n.witnesses) >= d.reports,
      reason |-> "felt", raises |-> FALSE],
     [set |-> d.region # "",
      passes |-> ~n.tsunami /\ d.region = RegionOf(n.pos),
      reason |-> "region", raises |-> FALSE],
     [set |-> d.box # <<>>,
      passes |-> d.box # <<>> /\ d.box[1] < n.pos /\ n.pos < d.box[2],
      reason |-> "epicenter", raises |-> FALSE],
     [set |-> d.target # -1,
      passes |-> /\ Abs(n.pos - d.target) <= 1000
                 /\ CoordsSub(n.pos, n.crad, d.target, d.tradius)
                      <= (IF d.tradius # 0 THEN d.tradius ELSE n.radius),
      reason |-> "felt", raises |-> FALSE],
     [set |-> d.warning, passes |-> Early(n, t), reason |-> "warning",
      raises |-> FALSE],
     [set |-> d.rate # 0,
      passes |-> NoticeSignificance(n, t) \in {"magnitude", "population"},
      reason |-> "frequency", raises |-> FALSE],
     [set |-> d.people # 0, passes |-> Populations(n, t) > d.people,
      reason |-> "population", raises |-> FALSE] >>

\* the filters that are set and end the evaluation: the notice fails them,
\* or they raise
Ending(filters) ==
  {i \in 1..Len(filters):
     filters[i].set /\ (filters[i].raises \/ ~filters[i].passes)}

\* the filters that are set
Set(filters) == {i \in 1..Len(filters): filters[i].set}

\* what the evaluation in order gives when it ends at a filter
Ended(filters) ==
  IF filters[CHOOSE i \in Ending(filters):
               \A j \in Ending(filters): i <= j].raises
    THEN "AttributeError" ELSE "False"

\* C27 as stated: an empty domain gives False, the first filter the notice
\* fails gives False, and otherwise the reason is that of the first filter
\* that is set (domains without a threshold)
C27_FirstReason ==
  probe.op = "significance" /\ probe.domain.threshold = 0 =>
    LET filters == Filters(probe.domain, probe.self, now)
    IN  probe.result =
          IF probe.domain.empty THEN "False"
          ELSE IF Ending(filters) # {} THEN Ended(filters)
          ELSE filters[CHOOSE i \in Set(filters):
                         \A j \in Set(filters): i <= j].reason

\* C27, amended: an empty domain gives False; the filters are evaluated in
\* the order of the claim, the first one the notice fails gives False, a
\* threshold that is set raises AttributeError when its turn comes; and
\* otherwise the reason is that of the last filter that is set
C27_LastReason ==
  probe.op = "significance" =>
    LET filters == Filters(probe.domain, probe.self, now)
    IN  probe.result =
          IF probe.domain.empty THEN "False"
          ELSE IF Ending(filters) # {} THEN Ended(filters)
          ELSE filters[CHOOSE i \in Set(filters):
                         \A j \in Set(filters): j <= i].reason

\* a notice passes a domain with a region and a box besides the default
\* filters: the reason is that of the box
C27_Witness ==
  /\ probe.op = "significance"
  /\ probe.domain.region # "" /\ probe.domain.box # <<>>
  /\ probe.domain.target = -1 /\ ~probe.domain.warning
  /\ probe.domain.rate = 0 /\ probe.domain.people = 0
  /\ probe.result = "epicenter"

\* C28: for a domain with a threshold, significance answers False or a
\* reason for every notice
C28_Answered ==
  probe.op = "significance" /\ probe.domain.threshold # 0 =>
    probe.result # "AttributeError"

----------------------------------------------------------------------------
(* Properties of Domain.relevance (specification SpecMonitor)              *)

\* the notices of the history of domain d that are equal to notice id under
\* the fusion predicate, as positions in the history
Previous(d, id) ==
  {k \in 1..Len(dhistory[d]):
     ReportEq(EventView(notices[id]), EventView(notices[dhistory[d][k]]))}

\* what the claim says Domain.relevance returns for notice id on domain d,
\* the previous notice being the oldest equal one of the history
Claimed(d, id, previous) ==
  IF Previous(d, id) # {}
    THEN IF \/ Domains[d].updates
            \/ (~notices[previous].official /\ notices[id].official)
           THEN Supersedes(notices[id], notices[previous], now)
           ELSE "None"
    ELSE IF Significance(Domains[d], notices[id], now) # "False"
           THEN "significance"
           ELSE "None"

ClaimedOf(d, id) ==
  Claimed(d, id,
          IF Previous(d, id) = {} THEN 0
          ELSE dhistory[d][CHOOSE k \in Previous(d, id):
                             \A j \in Previous(d, id): k <= j])

\* C26: when the Monitor starts the message stream of a notice for a
\* (recipient, domain) pair, the relevance is supersedes(previous) if the
\* history of the domain holds an equal notice and the domain takes updates
\* (or the previous one was unofficial and this one is official), nothing if
\* it holds one and takes no updates, 'significance' if it holds none and
\* Domain.significance passes; a line is sent only with a relevance, which
\* is the reason recorded with it, and a stream without relevance is empty
C26_Relevance ==
  [][\A s \in streams' \ streams:
       /\ NoReason(ClaimedOf(s.domain, s.id)) => s.lines = 0 /\ sent' = sent
       /\ \A x \in sent' \ sent:
            /\ x.id = s.id /\ x.recipient = s.recipient /\ x.domain = s.domain
            /\ x.reason = ClaimedOf(s.domain, s.id)
            /\ ~NoReason(x.reason)]_vars

\* a notice that supersedes an earlier one was sent to a recipient whose
\* domain takes updates, and the stream of the domain that takes none, which
\* remembered the earlier notice, was empty
C26_Witness ==
  \E x \in sent:
    /\ x.other # 0
    /\ Domains[x.domain].updates
    /\ x.reason # "significance"
    /\ \E k \in 1..Len(remembered.news): remembered.news[k] = x.other
    /\ [id |-> x.id, recipient |-> "r2", domain |-> "news", lines |-> 0]
         \in streams

----------------------------------------------------------------------------
(* Event.model: the tick of the learner Worker, which setup() starts with  *)
(* learner.start(input=learner.ticker(seconds=300)).  Each item of the     *)
(* ticker is one call of Event.model; an exception ends the call and is    *)
(* logged by Worker.start.run, which goes on with the next item.           *)

\* the period of the ticker, in seconds
LearnerPeriod == 300

\* the waits between two items of Worker.ticker: a random portion of the
\* period before the item and the rest of it after, so between nothing and
\* two periods; the mean wait and the longest one
TickerWaits == {LearnerPeriod, 2 * LearnerPeriod}

\* how long the run is followed, in seconds: past the two hours of a green
\* alert
Horizon == 7500

\* the reports the fusion worker can take in such a run
MaxArrivals == 4

\* Event.stats as setup() opens it: the shelve of a first run or one that
\* holds both signs already; only the signs present are kept here
Shelves == {{}, {"+", "-"}}

StartLearner ==
  learner \in {[stats |-> shelve, learned |-> {}, fed |-> <<>>, raised |-> "",
                 ticks |-> 0, snapshot |-> <<>>, cursor |-> 0]:
                 shelve \in Shelves}

\* a variant in which Event.learn leaves report.heuristics as it is
Scored(acc, report) == report.heur

\* report.heuristics is not empty: the parser scored the report and
\* Event.learn has not emptied the list yet
Heuristic(acc, report) ==
  report.heur /\ <<report.rid, report.seq>> \notin acc.learned

\* Event.learn(report, score) on an event that is official or not, the
\* score in tenths; fed lists the reports whose weights were added to the
\* statistics, with the score and the sign they were added under
Learn(acc, official, report, score) ==
  IF acc.raised # "" \/ ~Heuristic(acc, report) \/ report.status > StPreliminary
    THEN acc
  ELSE LET sign == IF official THEN "+" ELSE "-"
       IN  [acc EXCEPT
              !.stats = @ \cup {sign},
              !.learned = @ \cup {<<report.rid, report.seq>>},
              !.fed = Append(@, [rid |-> report.rid, seq |-> report.seq,
                                 score |-> score, sign |-> sign]),
              !.raised = IF {"+", "-"} \subseteq (acc.stats \cup {sign})
                           THEN "" ELSE "KeyError"]

\* one of the two loops, over event.warners or over event.witnesses
RECURSIVE LearnAll(_, _, _, _, _)
LearnAll(acc, official, reports, score, k) ==
  IF k > Len(reports) THEN acc
  ELSE LearnAll(Learn(acc, official, reports[k], score), official, reports,
                score, k + 1)

\* a variant of the removal that deletes the event by its position
ForgetItself(acc, event) ==
  [acc EXCEPT !.history = SelectSeq(@, LAMBDA e: e # event)]

\* cls.history.remove(event): the first entry that is the event or compares
\* equal to it leaves the deque; ValueError when there is none
Forget(acc, event) ==
  IF \E i \in 1..Len(acc.history):
       \/ acc.history[i] = event
       \/ ReportEq(EventView(acc.history[i]), EventView(event))
    THEN [acc EXCEPT !.history = RemoveAt(@, RemoveIndex(@, event))]
    ELSE [acc EXCEPT !.raised = "ValueError"]

\* the body of the loop of Event.model for one event of the snapshot
Modelled(acc, event, t) ==
  IF event.official \/ (Timely(event, t) = "None" /\ Elapsed(event, 30, t))
    THEN LET kept == IF Timely(event, t) = "None"
                       THEN Forget(acc, event) ELSE acc
         IN  IF Len(event.children) < 4 THEN kept
             ELSE LearnAll(LearnAll(kept, event.official, Warners(event), 10, 1),
                           event.official, event.witnesses, 1, 1)
    ELSE acc

\* the loop over list(cls.history), which an exception leaves
RECURSIVE ModelFrom(_, _, _, _)
ModelFrom(acc, snapshot, k, t) ==
  IF k > Len(snapshot) \/ acc.raised # "" THEN acc
  ELSE ModelFrom(Modelled(acc, snapshot[k], t), snapshot, k + 1, t)

\* Event.model(tick, origin) at time t
ModelAt(t) ==
  ModelFrom([history |-> history, stats |-> learner.stats,
             learned |-> learner.learned, fed |-> learner.fed, raised |-> ""],
            history, 1, t)

\* the ticker waits and yields its next item, and the learner's thread runs
\* Event.model on it
Model(wait) ==
  /\ now + wait <= Started + Horizon
  /\ now' = now + wait
  /\ history' = ModelAt(now + wait).history
  /\ learner' = [stats |-> ModelAt(now + wait).stats,
                 learned |-> ModelAt(now + wait).learned,
                 fed |-> ModelAt(now + wait).fed,
                 raised |-> ModelAt(now + wait).raised,
                 ticks |-> Min(learner.ticks + 1, 1),
                 snapshot |-> <<>>, cursor |-> 0]
  /\ UNCHANGED <<output, feed, arrivals, fvars, mvars, svars, wvars, rvars,
                 lvars, pacing, probe, sink>>

\* the runs the learner is followed on
LearnerFeeds ==
  { {"west", "east", "centre"},
    {"west", "east", "centre", "near"},
    {"wide", "fut", "stale"},
    {"low", "wit", "wit2", "pick"},
    {"pick", "pick2", "wit", "wit2"} }

InitLearner == Start(LearnerFeeds) /\ NoReceivers /\ NoWorker
  /\ NoPollers /\ NoMeter /\ NoPacing /\ NoProbe /\ StartLearner /\ NoSink

\* the reports put on the fusion channel so far
Arrived == {input[i].rid: i \in 1..Len(input)} \cup {log[i].rid: i \in 1..Len(log)}

\* the sources deliver each of their reports once, during the first period
\* of the ticker
Arrive(rid) ==
  /\ now <= Started + LearnerPeriod
  /\ rid \notin Arrived
  /\ PutUpTo(rid, MaxArrivals)

\* the fusion worker takes them during that period
Fuse == now <= Started + LearnerPeriod /\ Process

NextLearner ==
  \/ \E rid \in Rids: Arrive(rid)
  \/ Fuse
  \/ \E wait \in TickerWaits: Model(wait)

SpecLearner == InitLearner /\ [][NextLearner]_vars

----------------------------------------------------------------------------
(* Event.model step by step: the copy list(cls.history) is taken outside   *)
(* Event.lock, the lock is held for each cls.history.remove(event) only,   *)
(* and the fusion worker runs Event.__init__ in between.                   *)

\* how long such a run is followed, in seconds
TickHorizon == 900

TickFeeds == { {"past", "past2", "z"} }

\* a source delivers one of its reports
Post(rid) == rid \notin Arrived /\ PutUpTo(rid, MaxPuts)

\* the ticker yields its next item and Event.model copies the history
Snap(wait) ==
  /\ learner.cursor = 0
  /\ now + wait <= Started + TickHorizon
  /\ now' = now + wait
  /\ learner' = [learner EXCEPT !.snapshot = history,
                                 !.cursor = IF history = <<>> THEN 0 ELSE 1,
                                 !.raised = "",
                                 !.ticks = Min(@ + 1, 1)]
  /\ UNCHANGED <<output, history, feed, arrivals, fvars, mvars, svars, wvars,
                 rvars, lvars, pacing, probe, sink>>

\* one pass of the loop of Event.model over the copy
StepOn(acc) ==
  /\ history' = acc.history
  /\ learner' = [learner EXCEPT
                   !.stats = acc.stats, !.learned = acc.learned,
                   !.fed = acc.fed, !.raised = acc.raised,
                   !.cursor = IF acc.raised # "" \/ @ = Len(learner.snapshot)
                                THEN 0 ELSE @ + 1,
                   !.snapshot = IF acc.raised # "" \/ learner.cursor = Len(@)
                                  THEN <<>> ELSE @]
  /\ UNCHANGED <<now, output, feed, arrivals, fvars, mvars, svars, wvars,
                 rvars, lvars, pacing, probe, sink>>

Step ==
  /\ learner.cursor > 0
  /\ StepOn(Modelled([history |-> history, stats |-> learner.stats,
                      learned |-> learner.learned, fed |-> learner.fed,
                      raised |-> ""],
                     learner.snapshot[learner.cursor], now))

InitTick == Start(TickFeeds) /\ NoReceivers /\ NoWorker
  /\ NoPollers /\ NoMeter /\ NoPacing /\ NoProbe /\ StartLearner /\ NoSink

NextTick ==
  \/ \E rid \in Rids: Post(rid)
  \/ Process
  \/ \E wait \in TickerWaits: Snap(wait)
  \/ Step

SpecTick == InitTick /\ [][NextTick]_vars

\* the events a step takes out of the history
Left == {i \in 1..Len(history): \A j \in 1..Len(history'): history'[j] # history[i]}

\* C30, first part: a tick of the learner removes an event from
\* Event.history only when the event's timely classification is None and the
\* event is at least 30 minutes old
C30_OnlyUntimely ==
  [][now' # now =>
       \A i \in Left: /\ Timely(history[i], now') = "None"
                      /\ Elapsed(history[i], 30, now')]_vars

\* C30, last part, within the run followed: when the clock reaches the
\* horizon every event has left Event.history
C30_GoneByHorizon == now = Started + Horizon => history = <<>>

----------------------------------------------------------------------------
(* Properties of the feedback of heuristics (specification SpecLearner)    *)

\* the fusions that made an event of four children or more
Grown == {i \in 1..Len(log): Fused(i) /\ Len(log[i].notice.children) >= 4}

\* the children of such an event that Event.model hands to Event.learn and
\* that carry heuristics
Owed(e) ==
  {k \in 1..Len(e.witnesses): e.witnesses[k].heur}

\* report c was added to the statistics
Fed(c) ==
  \E j \in 1..Len(learner.fed):
    learner.fed[j].rid = c.rid /\ learner.fed[j].seq = c.seq

\* C31: every event of four children or more that matures (by the horizon
\* each event is past its timely windows and older than 30 minutes) has had
\* each of its witness children that carries heuristics, warners included,
\* added to the statistics, whatever the statistics store held at the start
C31_FedBack ==
  now = Started + Horizon =>
    \A i \in Grown: \A k \in Owed(log[i].notice): Fed(log[i].notice.witnesses[k])

----------------------------------------------------------------------------
(* Properties of the locking of Event.history (specification SpecTick)     *)

\* the event the learner's tick is about to act on
Visited == learner.snapshot[learner.cursor]

\* that event passes the test of line 1659
Mature(event) ==
  event.official \/ (Timely(event, now) = "None" /\ Elapsed(event, 30, now))

\* C32: the learner's tick works on the history as it is under Event.lock:
\* it never acts on an event that a fusion has absorbed and removed from
\* Event.history since the tick copied the history
C32_NeverAbsorbed ==
  learner.cursor > 0 /\ Mature(Visited)
    => \E i \in 1..Len(history): history[i] = Visited

----------------------------------------------------------------------------
(* What Monitor.process leaves in the histories of the domains            *)
(* (specification SpecMonitor)                                             *)

\* the dispatch loop of thread th ends in this step
Ends(th) == mon[th].pc = "loop" /\ mon'[th].pc = "idle"

\* the domains notify() registered for a recipient
DomainsOf(r) ==
  {MonitorRecipients[i].domain:
     i \in {j \in 1..Len(MonitorRecipients): MonitorRecipients[j].recipient = r}}

\* the notice is an entry of the history of the domain
Stored(hist, id) == \E i \in 1..Len(hist): hist[i] = id

\* the history holds the notice or one that compares equal to it, as
\* "notice in domain.history" tests it
Known(hist, id) ==
  \E i \in 1..Len(hist):
    \/ hist[i] = id
    \/ ReportEq(EventView(notices[hist[i]]), EventView(notices[id]))

----------------------------------------------------------------------------
(* The children of the events of Event.history                             *)

\* the report objects that are children of the event
ChildrenOf(event) ==
  {<<event.children[k].rid, event.children[k].seq>>:
     k \in 1..Len(event.children)}

\* C36: no report is a child of two events of Event.history
C36_OneEvent ==
  \A i, j \in 1..Len(history):
    i # j => ChildrenOf(history[i]) \cap ChildrenOf(history[j]) = {}

----------------------------------------------------------------------------
(* What Event.learn adds to the statistics (specification SpecLearner)     *)

\* the two entries of the record of Event.learn are of one report object
SameReport(a, b) == a.rid = b.rid /\ a.seq = b.seq

\* Event.model at time t feeds the children of the event to Event.learn
Taught(event, t) ==
  /\ event.official \/ (Timely(event, t) = "None" /\ Elapsed(event, 30, t))
  /\ Len(event.children) >= 4

\* the report is one of event.warners
WarnerOf(event, c) ==
  \E k \in 1..Len(Warners(event)): SameReport(Warners(event)[k], c)

\* C37: no report is added to the statistics twice, and a report a tick adds
\* with weight 0.1 is a warner of no event that tick feeds to Event.learn
C37_Once ==
  [][\A k \in 1..Len(learner'.fed):
       /\ \A l \in 1..Len(learner'.fed):
            l # k => ~SameReport(learner'.fed[k], learner'.fed[l])
       /\ k > Len(learner.fed) /\ learner'.fed[k].score = 1 =>
            ~\E i \in 1..Len(history):
               Taught(history[i], now') /\ WarnerOf(history[i], learner'.fed[k])]_vars

\* at least two ticks have run on an official event of four children that
\* is still in the history, and a warner of it is in the statistics, once
\* and with weight 1.0
C37_Witness ==
  /\ now >= Started + 5 * LearnerPeriod
  /\ \E i \in 1..Len(history):
       /\ Taught(history[i], now) /\ history[i].official
       /\ \E k \in 1..Len(learner.fed):
            /\ WarnerOf(history[i], learner.fed[k])
            /\ learner.fed[k].score = 10

----------------------------------------------------------------------------
(* The Monitor with a domain that has a threshold (Domain.confirm)         *)

MaxConfirmed == 4

\* three crowdsourced reports of one earthquake and the detection that
\* confirms them
ConfirmFeeds == { {"wit3", "wit4", "wit5", "auto"} }

InitConfirm == Start(ConfirmFeeds) /\ NoReceivers /\ NoWorker
  /\ NoPollers /\ NoMeter /\ NoPacing /\ NoProbe /\ NoLearner /\ NoSink

NextConfirm ==
  \/ Tick
  \/ \E rid \in Rids: DeliverUpTo(rid, MaxConfirmed)
  \/ \E th \in 1..MonitorThreads: Take(th)
  \/ \E th \in 1..MonitorThreads: AcquireOf(th, WatchRecipients)
  \/ \E th \in 1..MonitorThreads: Visit(th)

SpecConfirm == InitConfirm /\ [][NextConfirm]_vars

\* the number of calls of domain.threshold.update that Monitor.process and
\* Notice.messages have made for the notice on the domain, over the lines
\* sent
Updates(id, d) ==
  LET lines == {x \in sent: x.id = id /\ x.domain = d}
  IN  Cardinality({p \in lines \X (1..3): p[2] <= p[1].updates})

\* C38: the threshold of a domain is updated at most once for one notice
C38_UpdatedOnce ==
  \A id \in 1..Len(notices): \A d \in DOMAIN Domains: Updates(id, d) <= 1

----------------------------------------------------------------------------
(* Recipient.send: the timers that dispatch the messages of one recipient  *)
(* times are in milliseconds                                               *)

MaxSends == 3
MaxClock == 12000

\* the class attribute 'throttle' of the IRC and Matrix recipients
SinkThrottle == 7000

\* what the caller passes for (title, details, coords, tag, pings): two
\* different lines
Bodies == {"line", "other line"}

\* how long after the latest step the next one comes
Gaps == {1000, 8000}

\* Recipient.__init__: previous is (None, None), time the moment of the
\* construction; timers are the Timer threads that have not fired, submitted
\* the calls of self.submit in their order
StartSink ==
  sink = [clock |-> 0, time |-> 0, previous |-> <<>>, calls |-> 0,
          timers |-> {}, submitted |-> <<>>]

\* self.throttle*(0.1 if (now - self.time > self.throttle) else 0.5 if
\* urgent else 1.0)
SendDelay(elapsed, urgent) ==
  IF elapsed > SinkThrottle THEN SinkThrottle \div 10
  ELSE IF urgent THEN SinkThrottle \div 2
  ELSE SinkThrottle

\* a Timer thread is due
Due(timer) == timer.due <= sink.clock

\* Recipient.send(title, details, ..., urgent) with details that are not
\* empty: the same data as the call before starts no timer
Send(body, urgent) ==
  /\ sink.calls < MaxSends
  /\ ~\E timer \in sink.timers: Due(timer)
  /\ sink' = IF sink.previous = <<body, urgent>>
               THEN [sink EXCEPT !.calls = @ + 1]
               ELSE [sink EXCEPT
                       !.calls = @ + 1,
                       !.timers = @ \cup
                         {[call |-> sink.calls + 1, urgent |-> urgent,
                           due |-> sink.clock
                                   + SendDelay(sink.clock - sink.time, urgent)]},
                       !.previous = <<body, urgent>>,
                       !.time = sink.clock]
  /\ UNCHANGED <<now, output, history, feed, arrivals, fvars, mvars, svars,
                 wvars, rvars, lvars, pacing, probe, learner>>

\* a Timer fires and its thread runs dispatch: self.submit under the
\* message lock.  Timers that are due together fire in either order
Dispatch(timer) ==
  /\ timer \in sink.timers
  /\ Due(timer)
  /\ sink' = [sink EXCEPT !.timers = @ \ {timer},
                          !.submitted = Append(@, timer.call)]
  /\ UNCHANGED <<now, output, history, feed, arrivals, fvars, mvars, svars,
                 wvars, rvars, lvars, pacing, probe, learner>>

\* time passes, up to the moment the next timer is due
Pass(gap) ==
  /\ sink.clock + gap <= MaxClock
  /\ ~\E timer \in sink.timers: Due(timer)
  /\ sink' = [sink EXCEPT !.clock =
                IF \E timer \in sink.timers: timer.due < sink.clock + gap
                  THEN CHOOSE due \in {timer.due: timer \in sink.timers}:
                         \A timer \in sink.timers: due <= timer.due
                  ELSE sink.clock + gap]
  /\ UNCHANGED <<now, output, history, feed, arrivals, fvars, mvars, svars,
                 wvars, rvars, lvars, pacing, probe, learner>>

InitSink ==
  Start({{}}) /\ NoReceivers /\ NoWorker /\ NoPollers /\ NoMeter
  /\ NoPacing /\ NoProbe /\ NoLearner /\ StartSink

NextSink ==
  \/ \E body \in Bodies: \E urgent \in BOOLEAN: Send(body, urgent)
  \/ \E timer \in sink.timers: Dispatch(timer)
  \/ \E gap \in Gaps: Pass(gap)

SpecSink == InitSink /\ [][NextSink]_vars

\* C39: the messages of a recipient are submitted in the order of the calls
\* of send
C39_InOrder ==
  \A i, j \in 1..Len(sink.submitted):
    i < j => sink.submitted[i] < sink.submitted[j]

----------------------------------------------------------------------------
(* Termination of the dispatch loop of Monitor.process                     *)

\* the threads of Worker.start.run keep running: a thread inside the loop
\* takes its next turn, since recipient.send only starts a Timer and the
\* generators of Notice.messages return
DispatchFeeds == { {"a", "late", "mid"} }

InitDispatch == Start(DispatchFeeds) /\ NoReceivers /\ NoWorker
  /\ NoPollers /\ NoMeter /\ NoPacing /\ NoProbe /\ NoLearner /\ NoSink

\* thread th gets its turns: WF_vars(Visit(th)) written with the condition
\* under which Visit(th) is enabled, every step of Visit(th) changing mon[th]
Scheduled(th) ==
  \/ []<>(~(Running /\ mon[th].pc = "loop"))
  \/ []<><<Visit(th)>>_vars

SpecDispatch ==
  InitDispatch /\ [][NextMonitor]_vars
  /\ \A th \in 1..MonitorThreads: Scheduled(th)

\* what the loop of a thread has left to do: one removal for each target and
\* one pass for each line its stream still holds; Notice.messages yields at
\* most 7 lines, which stands for a stream that has not started
Work(m) ==
  SumSeq([i \in 1..Len(m.targets) |->
            1 + (IF m.targets[i].left = -1 THEN 7 ELSE m.targets[i].left)])

\* a turn of the loop sends one line or removes a target, and leaves less to
\* do
Progress(th) ==
  /\ Work(mon'[th]) < Work(mon[th])
  /\ \/ Cardinality(sent') = Cardinality(sent) + 1
     \/ Len(mon'[th].targets) < Len(mon[th].targets)

\* the lock of a region is held exactly while a thread is inside the with
\* statement for a notice of that region
HeldInLoop ==
  \A region \in {"west", "east"}:
    region \in locks <=>
      \E th \in DOMAIN mon:
        /\ mon[th].pc = "loop"
        /\ RegionOf(notices[mon[th].id].pos) = region

\* C40: Monitor.process terminates: every turn of its dispatch loop sends
\* one line or removes at least one target, the lock of the region is held
\* only inside the loop, and a thread inside the loop leaves it
C40_Terminates ==
  /\ [][\A th \in DOMAIN mon:
          mon[th].pc = "loop" /\ mon'[th] # mon[th] => Progress(th)]_vars
  /\ []HeldInLoop
  /\ \A th \in 1..MonitorThreads:
       (mon[th].pc = "loop") ~> (mon[th].pc = "idle")

\* both threads are back at the queue with no lock held, after a loop that
\* sent more than one line to a recipient and removed a target that another
\* domain of its recipient had served
C40_Witness ==
  /\ \A th \in DOMAIN mon: mon[th].pc = "idle"
  /\ locks = {}
  /\ \E x \in sent: \E y \in sent:
       x.id = y.id /\ x.recipient = y.recipient /\ x.line # y.line
  /\ \E d \in DOMAIN remembered: remembered[d] # <<>>

=============================================================================
